---- MODULE Spec2Model ----
(***************************************************************************)
(* PathFinder_RL: the grid world with its pheromone field                  *)
(* (core/environment.py), the quadrant featurizer (core/state.py,          *)
(* core/utils.py, core/constants.py) and the tabular Q-learning loop       *)
(* (core/training.py).                                                     *)
(*                                                                         *)
(* Python floats are modelled by exact rationals.  Values that are stored  *)
(* in the program state (pheromone cells, rewards, Q-values, tile          *)
(* averages) are reduced fractions <<n, d>> of machine integers; the       *)
(* featurizer's normalisation, whose intermediate values need more digits, *)
(* is computed on fractions of arbitrary-size naturals (limb sequences).   *)
(***************************************************************************)
EXTENDS Integers, Sequences, FiniteSets, TLC

(***************************************************************************)
(* Exact rationals <<n, d>>, d > 0, in lowest terms.                       *)
(***************************************************************************)
Abs(n) == IF n < 0 THEN -n ELSE n

MinI(a, b) == IF a < b THEN a ELSE b

MaxI(a, b) == IF a < b THEN b ELSE a

RECURSIVE GCD(_, _)
GCD(a, b) == IF b = 0 THEN a ELSE GCD(b, a % b)

Rat(n, d) ==
    LET g == GCD(Abs(n), d)
    IN  IF n = 0 THEN <<0, 1>> ELSE <<n \div g, d \div g>>

RInt(n) == <<n, 1>>

RAdd(a, b) ==
    LET g == GCD(a[2], b[2])
        m == b[2] \div g
        k == a[2] \div g
    IN  Rat(a[1] * m + b[1] * k, a[2] * m)

RSub(a, b) == RAdd(a, <<-b[1], b[2]>>)

RMul(a, b) ==
    LET g1 == GCD(Abs(a[1]), b[2])
        g2 == GCD(Abs(b[1]), a[2])
    IN  IF a[1] = 0 \/ b[1] = 0 THEN <<0, 1>>
        ELSE <<(a[1] \div g1) * (b[1] \div g2), (a[2] \div g2) * (b[2] \div g1)>>

RLess(a, b) == a[1] * b[2] < b[1] * a[2]

RMax(a, b) == IF RLess(a, b) THEN b ELSE a

(***************************************************************************)
(* Naturals of arbitrary size: little-endian sequences of limbs in base    *)
(* BigBase, without leading zero limbs (zero is the empty sequence).       *)
(***************************************************************************)
BigBase == 10000

RECURSIVE BigOf(_)
BigOf(n) == IF n = 0 THEN <<>> ELSE <<n % BigBase>> \o BigOf(n \div BigBase)

RECURSIVE BigAddC(_, _, _)
BigAddC(a, b, c) ==
    IF a = <<>> /\ b = <<>>
    THEN IF c = 0 THEN <<>> ELSE <<c>>
    ELSE IF b = <<>> /\ c = 0 THEN a
    ELSE IF a = <<>> /\ c = 0 THEN b
    ELSE LET x  == (IF a = <<>> THEN 0 ELSE a[1]) + (IF b = <<>> THEN 0 ELSE b[1]) + c
             ta == IF a = <<>> THEN <<>> ELSE Tail(a)
             tb == IF b = <<>> THEN <<>> ELSE Tail(b)
         IN  <<x % BigBase>> \o BigAddC(ta, tb, x \div BigBase)

BigAdd(a, b) == BigAddC(a, b, 0)

RECURSIVE BigMulLimb(_, _, _)
BigMulLimb(a, k, c) ==
    IF a = <<>>
    THEN IF c = 0 THEN <<>> ELSE <<c>>
    ELSE LET x == a[1] * k + c
         IN  <<x % BigBase>> \o BigMulLimb(Tail(a), k, x \div BigBase)

RECURSIVE BigMul(_, _)
BigMul(a, b) ==
    IF a = <<>> \/ b = <<>> THEN <<>>
    ELSE LET low  == IF b[1] = 0 THEN <<>> ELSE BigMulLimb(a, b[1], 0)
             rest == BigMul(a, Tail(b))
         IN  BigAdd(low, IF rest = <<>> THEN <<>> ELSE <<0>> \o rest)

RECURSIVE BigLessFrom(_, _, _)
BigLessFrom(a, b, i) ==
    IF i = 0 THEN FALSE
    ELSE IF a[i] # b[i] THEN a[i] < b[i]
    ELSE BigLessFrom(a, b, i - 1)

BigLess(a, b) ==
    IF Len(a) # Len(b) THEN Len(a) < Len(b) ELSE BigLessFrom(a, b, Len(a))

(***************************************************************************)
(* Non-negative fractions of big naturals, [n, d] with d > 0 (not reduced).*)
(***************************************************************************)
BR(n, d) == [n |-> BigOf(n), d |-> BigOf(d)]

BRAdd(a, b) ==
    IF a.d = b.d THEN [n |-> BigAdd(a.n, b.n), d |-> a.d]
    ELSE [n |-> BigAdd(BigMul(a.n, b.d), BigMul(b.n, a.d)), d |-> BigMul(a.d, b.d)]

BRDiv(a, b) == [n |-> BigMul(a.n, b.d), d |-> BigMul(a.d, b.n)]

BRLess(a, b) == BigLess(BigMul(a.n, b.d), BigMul(b.n, a.d))

(***************************************************************************)
(* core/constants.py                                                       *)
(***************************************************************************)
\* ACTIONS (a reserved word of TLA+, hence the spelling)
Actions ==
    << <<0, -1>>, <<0, 1>>, <<-1, 0>>, <<1, 0>>,
       <<-1, -1>>, <<1, -1>>, <<-1, 1>>, <<1, 1>> >>

N_ACTIONS == Len(Actions)

ActionIdx == 0 .. (N_ACTIONS - 1)

VISION_RADIUS == 2

\* _quad_offsets: the offsets of one directional quadrant, the centre excluded.
QuadOffsets(dx_sign, dy_sign, radius) ==
    { o \in ((-radius) .. radius) \X ((-radius) .. radius) :
        /\ ~(o[1] = 0 /\ o[2] = 0)
        /\ ~(dx_sign < 0 /\ o[1] > 0)
        /\ ~(dx_sign > 0 /\ o[1] < 0)
        /\ ~(dy_sign < 0 /\ o[2] > 0)
        /\ ~(dy_sign > 0 /\ o[2] < 0) }

\* UL, UR, DR, DL
QUADS ==
    << QuadOffsets(-1, -1, VISION_RADIUS), QuadOffsets(1, -1, VISION_RADIUS),
       QuadOffsets(1, 1, VISION_RADIUS), QuadOffsets(-1, 1, VISION_RADIUS) >>

(***************************************************************************)
(* core/environment.py: GridWorld.  A grid is a sequence of rows, a row a  *)
(* sequence of the characters "0" (free) and "1" (obstacle); the cell      *)
(* (x, y) is grid[y + 1][x + 1].  The pheromone field P has the same shape.*)
(***************************************************************************)
GridH(grid) == Len(grid)

GridW(grid) == Len(grid[1])

Tile(grid, x, y) == grid[y + 1][x + 1]

InBounds(grid, x, y) == 0 <= x /\ x < GridW(grid) /\ 0 <= y /\ y < GridH(grid)

\* reset(): the all-zero pheromone field
ZeroField(grid) == [yy \in 1 .. GridH(grid) |-> [xx \in 1 .. GridW(grid) |-> RInt(0)]]

\* (variant: reset keeps the pheromone field)
ResetKeepsField(grid, start, Pold) == [pos |-> start, P |-> Pold]

\* (variant: reset puts the agent on the cell left of column 0)
ResetOutside(grid, start, Pold) == [pos |-> << -1, start[2] >>, P |-> ZeroField(grid)]

\* reset(): self.pos = self.start; self.P = all zeros (the old field is dropped)
Reset(grid, start, Pold) == [pos |-> start, P |-> ZeroField(grid)]

\* decay = 0.97, deposit_rate = 0.6, pher_penalty = 0, and the terminal bonus
\* "r += 0" of step()
DecayRate == Rat(97, 100)

DepositRate == Rat(6, 10)

\* (variant: the penalty weight 1.0 of the standalone script)
PherPenaltyOne == RInt(1)

PherPenalty == RInt(0)

\* (variant: the terminal bonus 50 of the standalone script)
GoalBonusLarge == RInt(50)

GoalBonus == RInt(0)

\* (variant: only the x coordinate is tested)
HitWallXOnly(grid, tx, ty) == ~(0 <= tx /\ tx < GridW(grid))

\* hit_wall = not (0 <= tx < W and 0 <= ty < H)
HitWall(grid, tx, ty) == ~InBounds(grid, tx, ty)

\* nx = max(0, min(W - 1, tx)); ny = max(0, min(H - 1, ty))
ClampPos(grid, tx, ty) ==
    << MaxI(0, MinI(GridW(grid) - 1, tx)), MaxI(0, MinI(GridH(grid) - 1, ty)) >>

\* tile_reward = 0.0 if tile == "0" else -1.0
TileReward(tile) == IF tile = "0" THEN RInt(0) ELSE RInt(-1)

\* for yy, xx: row[xx] *= decay
DecayField(P) == [yy \in DOMAIN P |-> [xx \in DOMAIN P[yy] |-> RMul(P[yy][xx], DecayRate)]]

\* (variant: a deposit that does not shrink with the cell's value)
DepositUnbounded(P, x, y) == [P EXCEPT ![y + 1][x + 1] = RAdd(@, DepositRate)]

\* self.P[y][x] += deposit_rate * (1.0 - self.P[y][x])
Deposit(P, x, y) ==
    [P EXCEPT ![y + 1][x + 1] = RAdd(@, RMul(DepositRate, RSub(RInt(1), @)))]

\* (variant: the deposit first, the decay second)
PheromoneStepDepositFirst(P, x, y) == DecayField(Deposit(P, x, y))

\* The pheromone dynamics of one step: decay of the whole field, then the
\* deposit on the cell the agent now occupies.
PheromoneStep(P, x, y) == Deposit(DecayField(P), x, y)

\* r = tile_reward; r -= pher_penalty * P[y][x]; if reached_goal: r += 0
StepReward(tile, p, reached_goal) ==
    LET r1 == RSub(TileReward(tile), RMul(PherPenalty, p))
    IN  IF reached_goal THEN RAdd(r1, GoalBonus) ELSE r1

\* (variant: the episode ends on the goal only)
StepDoneGoalOnly(reached_goal, hit_wall, hit_obstacle) == reached_goal

\* done = reached_goal or hit_wall or hit_obstacle
StepDone(reached_goal, hit_wall, hit_obstacle) == reached_goal \/ hit_wall \/ hit_obstacle

\* GridWorld.step(action_idx): the new position and field, the reward, the done
\* flag and the info record (with the target cell tx, ty the step computed).
EnvStep(grid, goal, pos, P, action_idx) ==
    LET dx  == Actions[action_idx + 1][1]
        dy  == Actions[action_idx + 1][2]
        tx  == pos[1] + dx
        ty  == pos[2] + dy
        hw  == HitWall(grid, tx, ty)
        np  == ClampPos(grid, tx, ty)
        tl  == Tile(grid, np[1], np[2])
        ho  == tl = "1"
        P2  == PheromoneStep(P, np[1], np[2])
        rg  == np = goal
    IN  [ pos |-> np, P |-> P2,
          r |-> StepReward(tl, P2[np[2] + 1][np[1] + 1], rg),
          done |-> StepDone(rg, hw, ho),
          hit_wall |-> hw, hit_obstacle |-> ho, reached_goal |-> rg,
          tx |-> tx, ty |-> ty ]

(***************************************************************************)
(* core/utils.py and core/state.py: the featurizer                         *)
(***************************************************************************)
RECURSIVE BRSum(_)
BRSum(xs) == IF xs = <<>> THEN BR(0, 1) ELSE BRAdd(xs[1], BRSum(Tail(xs)))

\* normalize(xs, eps=1e-9): s = sum(xs) + eps; [x / s for x in xs]
normalize(xs) ==
    LET eps == BR(1, 1000000000)
        s   == BRAdd(BRSum(xs), eps)
    IN  [i \in DOMAIN xs |-> BRDiv(xs[i], s)]

\* (variant: the comparison is x <= b)
RECURSIVE BucketFromInclusive(_, _, _)
BucketFromInclusive(x, bins, i) ==
    IF i > Len(bins) THEN Len(bins)
    ELSE IF ~BRLess(bins[i], x) THEN i - 1
    ELSE BucketFromInclusive(x, bins, i + 1)

\* bucketize(x, bins): the first index i (from 0) with x < bins[i], else len(bins)
RECURSIVE BucketFrom(_, _, _)
BucketFrom(x, bins, i) ==
    IF i > Len(bins) THEN Len(bins)
    ELSE IF BRLess(x, bins[i]) THEN i - 1
    ELSE BucketFrom(x, bins, i + 1)

bucketize(x, bins) == BucketFrom(x, bins, 1)

\* bins = [0.2, 0.4, 0.6, 0.8]
Bins == << BR(1, 5), BR(2, 5), BR(3, 5), BR(4, 5) >>

\* t_val of one offset: -2.0 out of bounds, 0.0 on a free cell, -1.0 otherwise
TVal(grid, x, y) ==
    IF ~InBounds(grid, x, y) THEN -2
    ELSE IF Tile(grid, x, y) = "0" THEN 0 ELSE -1

\* p_val of one offset: 1.0 out of bounds, else P[y][x]
PVal(grid, P, x, y) ==
    IF ~InBounds(grid, x, y) THEN BR(1, 1)
    ELSE BR(P[y + 1][x + 1][1], P[y + 1][x + 1][2])

RECURSIVE TSum(_, _, _, _)
TSum(grid, x0, y0, offs) ==
    IF offs = {} THEN 0
    ELSE LET o == CHOOSE c \in offs : TRUE
         IN  TVal(grid, x0 + o[1], y0 + o[2]) + TSum(grid, x0, y0, offs \ {o})

RECURSIVE PSum(_, _, _, _, _)
PSum(grid, P, x0, y0, offs) ==
    IF offs = {} THEN BR(0, 1)
    ELSE LET o == CHOOSE c \in offs : TRUE
         IN  BRAdd(PVal(grid, P, x0 + o[1], y0 + o[2]), PSum(grid, P, x0, y0, offs \ {o}))

\* tile_avgs[q] = t_sum / n_tiles
TileAvgs(grid, pos) ==
    [q \in 1 .. Len(QUADS) |-> Rat(TSum(grid, pos[1], pos[2], QUADS[q]), Cardinality(QUADS[q]))]

\* pher_avgs[q] = p_sum / n_tiles
PherAvgs(grid, P, pos) ==
    [q \in 1 .. Len(QUADS) |->
        BRDiv(PSum(grid, P, pos[1], pos[2], QUADS[q]), BR(Cardinality(QUADS[q]), 1))]

\* pher_goodness = [1.0 / (1.0 + p) for p in pher_avgs]
PherGoodness(avgs) == [q \in DOMAIN avgs |-> BRDiv(BR(1, 1), BRAdd(BR(1, 1), avgs[q]))]

\* get_state_debug(env): tile_strength is tile_avgs (the softmax is disabled),
\* tile_b is tuple(tile_strength), pher_b the buckets of pher_strength.
get_state_debug(grid, pos, P) ==
    LET tile_avgs     == TileAvgs(grid, pos)
        pher_avgs     == PherAvgs(grid, P, pos)
        pher_strength == normalize(PherGoodness(pher_avgs))
        pher_b        == [q \in DOMAIN pher_strength |-> bucketize(pher_strength[q], Bins)]
    IN  [ state |-> tile_avgs \o pher_b,
          tile_avgs |-> tile_avgs, pher_avgs |-> pher_avgs,
          tile_strength |-> tile_avgs, pher_strength |-> pher_strength,
          tile_buckets |-> tile_avgs, pher_buckets |-> pher_b ]

\* get_state(env)
get_state(grid, pos, P) == get_state_debug(grid, pos, P).state

(***************************************************************************)
(* core/training.py: q_learning                                            *)
(***************************************************************************)
\* alpha=0.2, gamma=0.95 (the defaults of q_learning)
Alpha == Rat(2, 10)

Gamma == Rat(95, 100)

\* eps = max(0.01, eps * 0.995)
EpsMin == Rat(1, 100)

EpsDecay == Rat(995, 1000)

\* (variant: a decay without the floor)
DecayEpsNoFloor(e) == RMul(e, EpsDecay)

DecayEps(e) == RMax(EpsMin, RMul(e, EpsDecay))

\* Q = defaultdict(lambda: [0.0] * N_ACTIONS)
ZeroRow == [i \in 1 .. N_ACTIONS |-> RInt(0)]

EmptyQ == [k \in {} |-> ZeroRow]

\* The row a lookup Q[k] returns, and the table after the lookup (a defaultdict
\* creates the row it is asked for).
QRow(Qt, k) == IF k \in DOMAIN Qt THEN Qt[k] ELSE ZeroRow

\* (variant: a new row starts from optimistic values)
TouchOptimistic(Qt, k) ==
    IF k \in DOMAIN Qt THEN Qt
    ELSE [x \in (DOMAIN Qt) \cup {k} |->
            IF x = k THEN [i \in 1 .. N_ACTIONS |-> RInt(1)] ELSE Qt[x]]

Touch(Qt, k) ==
    IF k \in DOMAIN Qt THEN Qt
    ELSE [x \in (DOMAIN Qt) \cup {k} |-> IF x = k THEN ZeroRow ELSE Qt[x]]

RECURSIVE RowMaxFrom(_, _)
RowMaxFrom(row, i) ==
    IF i = Len(row) THEN row[i] ELSE RMax(row[i], RowMaxFrom(row, i + 1))

\* max(values)
RowMax(row) == RowMaxFrom(row, 1)

\* (variant: the first index holding the maximum)
ArgmaxFirst(row) ==
    { i \in ActionIdx : row[i + 1] = RowMax(row) /\ \A j \in 0 .. (i - 1) : row[j + 1] # RowMax(row) }

\* argmax_index(values): one of the indices holding the maximum (random.choice)
ArgmaxSet(row) == { i \in ActionIdx : row[i + 1] = RowMax(row) }

\* (variant: bootstrapping through a terminal transition)
BestNextBootstrap(Qt, k2, isdone) == RowMax(QRow(Qt, k2))

\* best_next = 0.0 if done else max(Q[s2])
BestNext(Qt, k2, isdone) == IF isdone THEN RInt(0) ELSE RowMax(QRow(Qt, k2))

\* (variant: the row of s2 is looked up whether or not done is true)
TouchNextAlways(Qt, k2, isdone) == Touch(Qt, k2)

\* The table after evaluating best_next: max(Q[s2]) creates the row of s2,
\* and it is evaluated only when done is false.
TouchNext(Qt, k2, isdone) == IF isdone THEN Qt ELSE Touch(Qt, k2)

\* Q[s][a] += alpha * (r + gamma * best_next - Q[s][a])
Bellman(q, rew, bn) == RAdd(q, RMul(Alpha, RSub(RAdd(rew, RMul(Gamma, bn)), q)))

\* (variant: the answer of renderer.update is ignored)
StopsTrainingNever(shown, keep) == FALSE

\* "if not keep_running: renderer.close(); return Q", reached only under
\* "if show and renderer"
StopsTraining(shown, keep) == shown /\ ~keep

\* (variant: the inner loop is never left)
LeavesInnerLoopNever(isdone, tt, maxs) == FALSE

\* The end of the loop body: "s = s2; if not done: pass".  Nothing leaves the
\* inner loop but the exhaustion of range(1, max_steps + 1).
LeavesInnerLoop(isdone, tt, maxs) == tt >= maxs

(***************************************************************************)
(* The runs that are explored.  A configuration is the arguments of        *)
(* GridWorld(grid, start, goal) and of q_learning(env, episodes, max_steps,*)
(* eps, visualize, visualize_every_episode), and rng: the first draws of   *)
(* the random source, each draw being the pair (random.random() < eps, the *)
(* action drawn by random.randrange or random.choice).  Once rng is used   *)
(* up, the draws are arbitrary, and at most MaxFreeDraws of them are       *)
(* followed.                                                               *)
(***************************************************************************)
MaxFreeDraws == 2

\* random_grid(3, 3): a free centre inside an obstacle border
GridRing ==
    << <<"1", "1", "1">>,
       <<"1", "0", "1">>,
       <<"1", "1", "1">> >>

\* ["01", "00"]: three free cells and the obstacle (1, 0)
GridSmall ==
    << <<"0", "1">>,
       <<"0", "0">> >>

\* ["0", "01"]: the second row is longer than the first (W = len(grid[0]) = 1)
GridRagged ==
    << <<"0">>,
       <<"0", "1">> >>

\* Every action drawn twice in a row, as exploration draws: with max_steps = 2
\* each episode leaves the start cell by a new action.
EachActionTwice == [i \in 1 .. (2 * N_ACTIONS) |-> [explore |-> TRUE, a |-> (i - 1) \div 2]]

\* The arguments of greedy_run(env, Q, max_steps, visualize) are the fields
\* g_max_steps and g_visualize.
Configs ==
    { [grid |-> GridSmall, start |-> <<0, 0>>, goal |-> <<1, 1>>, episodes |-> 2,
       max_steps |-> 2, eps |-> Rat(4, 10), visualize |-> v, vis_every |-> 1,
       rng |-> <<>>, g_max_steps |-> 1, g_visualize |-> FALSE] : v \in BOOLEAN }
    \cup
    { [grid |-> GridSmall, start |-> <<0, 1>>, goal |-> <<1, 1>>, episodes |-> 2,
       max_steps |-> 1, eps |-> Rat(4, 10), visualize |-> TRUE, vis_every |-> 2,
       rng |-> <<>>, g_max_steps |-> 1, g_visualize |-> FALSE] }
    \cup
    { [grid |-> GridSmall, start |-> <<0, 0>>, goal |-> <<1, 1>>, episodes |-> 1,
       max_steps |-> 3, eps |-> Rat(4, 10), visualize |-> FALSE, vis_every |-> 1,
       rng |-> << [explore |-> TRUE, a |-> 1] >>, g_max_steps |-> 0,
       g_visualize |-> FALSE] }
    \cup
    { [grid |-> GridRing, start |-> <<1, 1>>, goal |-> g, episodes |-> N_ACTIONS + 1,
       max_steps |-> 2, eps |-> EpsMin, visualize |-> FALSE, vis_every |-> 1,
       rng |-> EachActionTwice, g_max_steps |-> 0, g_visualize |-> FALSE]
       : g \in { <<1, 1>>, <<2, 2>> } }
    \cup
    \* one training pass onto the obstacle, then a rollout of two passes
    { [grid |-> GridSmall, start |-> <<0, 1>>, goal |-> <<1, 1>>, episodes |-> 1,
       max_steps |-> 1, eps |-> Rat(4, 10), visualize |-> FALSE, vis_every |-> 1,
       rng |-> << [explore |-> TRUE, a |-> 5] >>, g_max_steps |-> 2,
       g_visualize |-> v] : v \in BOOLEAN }
    \cup
    \* a rollout without passes under a renderer
    { [grid |-> GridSmall, start |-> <<0, 1>>, goal |-> <<1, 1>>, episodes |-> 1,
       max_steps |-> 1, eps |-> Rat(4, 10), visualize |-> FALSE, vis_every |-> 1,
       rng |-> << [explore |-> TRUE, a |-> 5] >>, g_max_steps |-> 0,
       g_visualize |-> TRUE] }
    \cup
    \* episodes without passes: the exploration rates of two episodes
    { [grid |-> GridSmall, start |-> <<0, 0>>, goal |-> <<1, 1>>, episodes |-> 2,
       max_steps |-> 0, eps |-> e, visualize |-> FALSE, vis_every |-> 1,
       rng |-> <<>>, g_max_steps |-> 0, g_visualize |-> FALSE]
       : e \in { RInt(0), Rat(1, 200), EpsMin, Rat(1, 2), RInt(1) } }
    \cup
    \* an initial exploration rate below the floor, each episode one pass
    { [grid |-> GridSmall, start |-> <<0, 0>>, goal |-> <<1, 1>>, episodes |-> 2,
       max_steps |-> 1, eps |-> RInt(0), visualize |-> FALSE, vis_every |-> 1,
       rng |-> <<>>, g_max_steps |-> 0, g_visualize |-> FALSE] }
    \cup
    \* a start cell outside the grid, and a grid whose rows differ in length
    { [grid |-> GridSmall, start |-> <<2, 0>>, goal |-> <<1, 1>>, episodes |-> 1,
       max_steps |-> 2, eps |-> Rat(4, 10), visualize |-> FALSE, vis_every |-> 1,
       rng |-> <<>>, g_max_steps |-> 1, g_visualize |-> FALSE] }
    \cup
    { [grid |-> GridRagged, start |-> <<0, 0>>, goal |-> <<0, 1>>, episodes |-> 1,
       max_steps |-> 1, eps |-> Rat(4, 10), visualize |-> FALSE, vis_every |-> 1,
       rng |-> << [explore |-> TRUE, a |-> 1] >>, g_max_steps |-> 1,
       g_visualize |-> FALSE] }

(***************************************************************************)
(* src/main.py: the standalone script, with its own GridWorld, get_state,  *)
(* q_learning and greedy_run.  ACTIONS, argmax_index, normalize,           *)
(* bucketize, reset() and the pheromone dynamics (decay 0.97, deposit rate *)
(* 0.6) are the same as in core and are shared with it.                    *)
(***************************************************************************)
\* QUADS: the 3x3 box around the agent pooled into four 2x2 quadrants
MainQUADS ==
    << { <<-1, -1>>, <<0, -1>>, <<-1, 0>>, <<0, 0>> },
       { <<0, -1>>, <<1, -1>>, <<0, 0>>, <<1, 0>> },
       { <<0, 0>>, <<1, 0>>, <<0, 1>>, <<1, 1>> },
       { <<-1, 0>>, <<0, 0>>, <<-1, 1>>, <<0, 1>> } >>

\* step_cost = 0.05; base_reward = 1 if tile == "0" else -1;
\* r = base_reward - step_cost; pher_penalty = 1.0;
\* r -= pher_penalty * P[y][x]; if done: r += 50
MainStepReward(tile, p, isdone) ==
    LET step_cost    == Rat(5, 100)
        pher_penalty == RInt(1)
        base_reward  == IF tile = "0" THEN RInt(1) ELSE RInt(-1)
        r1           == RSub(RSub(base_reward, step_cost), RMul(pher_penalty, p))
    IN  IF isdone THEN RAdd(r1, RInt(50)) ELSE r1

\* GridWorld.step(action_idx) of the script: the move is clamped to the grid,
\* and done = (self.pos == self.goal)
MainEnvStep(grid, goal, pos, P, action_idx) ==
    LET np == ClampPos(grid, pos[1] + Actions[action_idx + 1][1],
                             pos[2] + Actions[action_idx + 1][2])
        P2 == PheromoneStep(P, np[1], np[2])
    IN  [ pos |-> np, P |-> P2, done |-> np = goal,
          r |-> MainStepReward(Tile(grid, np[1], np[2]), P2[np[2] + 1][np[1] + 1], np = goal) ]

\* t_sum of a quadrant; t_val: -2.0 out of bounds, 1.0 on a blue cell, -1.0 on
\* a red one
RECURSIVE MainTSum(_, _, _, _)
MainTSum(grid, x0, y0, offs) ==
    IF offs = {} THEN 0
    ELSE LET o     == CHOOSE c \in offs : TRUE
             x     == x0 + o[1]
             y     == y0 + o[2]
             t_val == IF ~InBounds(grid, x, y) THEN -2
                      ELSE IF Tile(grid, x, y) = "0" THEN 1 ELSE -1
         IN  t_val + MainTSum(grid, x0, y0, offs \ {o})

RECURSIVE SeqMax(_, _)
SeqMax(xs, i) == IF i = Len(xs) THEN xs[i] ELSE MaxI(xs[i], SeqMax(xs, i + 1))

RECURSIVE SeqSum(_, _)
SeqSum(xs, i) == IF i > Len(xs) THEN 0 ELSE xs[i] + SeqSum(xs, i + 1)

\* softmax(xs) of the quadrant averages xs[i] = sums[i] / 4:
\* exps = [exp(x - m) for x in xs]; [e / sum(exps) for e in exps].
\* exp_quarters is math.exp(-k / 4.0) for k = 0 .. 12, in millionths (rounded):
\* the tile averages are quarters between -2 and 1, so that x - max(xs) is
\* -k / 4.
softmax(sums) ==
    LET exp_quarters ==
            << 1000000, 778801, 606531, 472367, 367879, 286505, 223130, 173774,
               135335, 105399, 82085, 63928, 49787 >>
        m    == SeqMax(sums, 1)
        exps == [i \in DOMAIN sums |-> exp_quarters[m - sums[i] + 1]]
        tot  == SeqSum(exps, 1)
    IN  [i \in DOMAIN sums |-> BR(exps[i], tot)]

\* bins = [0.1, 0.3, 0.5, 0.7]
MainBins == << BR(1, 10), BR(3, 10), BR(1, 2), BR(7, 10) >>

\* get_state(env) of the script: tile_b + pher_b, the buckets of the softmax
\* of the tile averages and of the normalized pheromone goodness
MainTileB(grid, pos) ==
    LET tile_strength == softmax([q \in 1 .. Len(MainQUADS) |->
                                     MainTSum(grid, pos[1], pos[2], MainQUADS[q])])
    IN  [q \in DOMAIN tile_strength |-> bucketize(tile_strength[q], MainBins)]

MainPherB(grid, P, pos) ==
    LET \* pher_avgs[q] = p_sum / 4.0
        pher_avgs     == [q \in 1 .. Len(MainQUADS) |->
                            BRDiv(PSum(grid, P, pos[1], pos[2], MainQUADS[q]), BR(4, 1))]
        pher_strength == normalize(PherGoodness(pher_avgs))
    IN  [q \in DOMAIN pher_strength |-> bucketize(pher_strength[q], MainBins)]

Main_get_state(grid, pos, P) == MainTileB(grid, pos) \o MainPherB(grid, P, pos)

\* best_next = max(Q[s2]), whatever done is
MainBestNext(Qt, k2, isdone) == RowMax(QRow(Qt, k2))

\* "s = s2; if done: break"
MainLeavesInnerLoop(isdone, tt, maxs) == isdone \/ tt >= maxs

\* The runs of the script that are explored: q_learning and then greedy_run
\* (which always builds a renderer) on the one-cell grid whose cell is start
\* and goal, and on ["01", "00"]; without a window and with one, shown in
\* every episode or in every second one.
GridOne == << <<"0">> >>

MainConfigs ==
    { [grid |-> GridOne, start |-> <<0, 0>>, goal |-> <<0, 0>>, episodes |-> 2,
       max_steps |-> 2, eps |-> Rat(4, 10), visualize |-> FALSE, vis_every |-> 1,
       rng |-> <<>>, g_max_steps |-> 0, g_visualize |-> TRUE],
      [grid |-> GridSmall, start |-> <<0, 0>>, goal |-> <<1, 1>>, episodes |-> 1,
       max_steps |-> 2, eps |-> Rat(4, 10), visualize |-> FALSE, vis_every |-> 1,
       rng |-> <<>>, g_max_steps |-> 0, g_visualize |-> TRUE],
      [grid |-> GridSmall, start |-> <<0, 0>>, goal |-> <<1, 1>>, episodes |-> 1,
       max_steps |-> 2, eps |-> Rat(4, 10), visualize |-> FALSE, vis_every |-> 1,
       rng |-> << [explore |-> TRUE, a |-> 0], [explore |-> TRUE, a |-> 1] >>,
       g_max_steps |-> 2, g_visualize |-> TRUE],
      [grid |-> GridSmall, start |-> <<0, 0>>, goal |-> <<1, 1>>, episodes |-> 1,
       max_steps |-> 2, eps |-> Rat(4, 10), visualize |-> TRUE, vis_every |-> 1,
       rng |-> <<>>, g_max_steps |-> 0, g_visualize |-> TRUE],
      [grid |-> GridOne, start |-> <<0, 0>>, goal |-> <<0, 0>>, episodes |-> 2,
       max_steps |-> 2, eps |-> Rat(4, 10), visualize |-> TRUE, vis_every |-> 2,
       rng |-> << [explore |-> TRUE, a |-> 0] >>, g_max_steps |-> 1,
       g_visualize |-> TRUE] }

VARIABLES
    cfg,          \* the configuration of the run (never changes)
    pos, P,       \* GridWorld: self.pos, self.P
    Q,            \* the Q-table
    ep, t,        \* the loop indices of q_learning (0 before the first pass)
    s,            \* the state key the next action is chosen for
    eps,          \* the exploration rate
    total_r,      \* the reward accumulated in the episode
    show,         \* visualize and (ep % visualize_every_episode == 0)
    renderer,     \* "none", or the renderer's running flag: "running", "stopped"
    exploring, a, \* the action selection of the last iteration
    r, done, info,\* what env.step returned in the last iteration
    target,       \* (tx, ty) of that step
    s2, best_next,\* the next state key and the bootstrap value of that iteration
    keep_running, \* what renderer.update returned in that iteration
    pc,           \* src/main.py only: "renderer_init", "greedy_renderer_init":
                  \* inside MatplotlibRenderer(...) of q_learning, of greedy_run.
                  \* q_learning: "reset": at the head of the episode loop, "inner":
                  \* in the inner loop, "update": inside the renderer.update of a
                  \* pass, "episode_end": past the inner loop, "last_update":
                  \* inside the renderer.update that follows the last episode,
                  \* "returned".  greedy_run: "greedy": in its loop,
                  \* "greedy_update": inside the renderer.update of a pass,
                  \* "rollout_end_update": inside the one under "if done:",
                  \* "max_steps_update": inside the one after the loop, "rolled"
    ret,          \* the table q_learning returned
    rng, nfree,   \* the scripted draws left, the number of free draws taken
    debug2,       \* what get_state_debug returned in the last iteration
    result,       \* what greedy_run returned
    idxs,         \* argmax_index: the indices random.choice last drew from
    steps,        \* the number of env.step calls q_learning has made
    twin,         \* a second run of the same calls on the same draws, without
                  \* an observer (see TwinInit)
    b_x, b_bins,  \* bucketize(x, bins): the arguments of a call,
    b_out,        \* and what it returned
    running, paused, show_quad_means,
                  \* PygameRenderer: self.running, self.paused, self.show_quad_means
    u_pc,         \* update(): "idle" (not called, or returned), "waiting" (in its
                  \* while loop)
    u_ret,        \* what update() last returned: "True", "False" ("none" before
                  \* the first return and during a call)
    batch,        \* the events pygame.event.get() last handed to _process_events
    r_last        \* the last call that acted: "init", "update" (up to the first
                  \* test of the loop), "wait" (one more turn of the loop), "close"

\* The renderer object.
rvars == << running, paused, show_quad_means, u_pc, u_ret, batch, r_last >>

\* The state outside q_learning, greedy_run and the environment.

aux == << b_x, b_bins, b_out, rvars >>

vars == << cfg, pos, P, Q, ep, t, s, eps, total_r, show, renderer, exploring, a,
           r, done, info, target, s2, best_next, keep_running, pc, ret, rng, nfree,
           debug2, result, idxs, steps, twin, aux >>

NoKey == <<>>

NoDebug == [state |-> NoKey]

NoResult == [returned |-> FALSE]

\* GridWorld.__init__ stores its arguments and evaluates len(grid) and
\* len(grid[0]); nothing else is looked at, so it raises (IndexError) on an
\* empty grid only.
Constructs(grid, start, goal) == Len(grid) >= 1

(***************************************************************************)
(* core/training.py: greedy_run(env, Q), called with the table q_learning  *)
(* returned (the same object, so its lookups act on Q).                    *)
(***************************************************************************)
\* (variant: the rollout keeps learning)
GreedyTableLearns(Qt, k, act, rew) ==
    [Touch(Qt, k) EXCEPT ![k][act + 1] = Bellman(@, rew, RInt(0))]

\* q_s = Q[s]: the lookup of a defaultdict creates the row of an unseen state.
\* The table after one pass of the rollout that looked up k, chose act and
\* received rew: there is no update.
GreedyTable(Qt, k, act, rew) == Touch(Qt, k)

\* (variant: the last redraw does not look the terminal state up)
RedrawTableNever(Qt, k2, has_renderer) == Qt

\* detail_lines=_debug_lines(renderer, Q[s2], debug2), under "if done:" and
\* "if renderer:": one more lookup, of the terminal state.
RedrawTable(Qt, k2, has_renderer) == IF has_renderer THEN Touch(Qt, k2) ELSE Qt

\* (variant: the flag says that the rollout is over)
SuccessFlagDone(isdone, reached_goal) == isdone

\* return total_r, info.get("reached_goal", False), under "if done:"
SuccessFlag(isdone, reached_goal) == isdone /\ reached_goal

(***************************************************************************)
(* The second run: q_learning(env, ..., visualize=False) followed by       *)
(* greedy_run(env, Q, ..., visualize=False) on an environment of its own   *)
(* built from the same grid, start and goal, with the same arguments and   *)
(* fed with the same draws of the random source.  It is the same code,     *)
(* taken with "renderer = None".  It is followed pass by pass as long as   *)
(* the observer of the first run answers continue (live); pc = "diverged"  *)
(* says that the same draws can no longer be told to select the same       *)
(* branch or the same element in both runs.                                *)
(***************************************************************************)
TwinInit(c) ==
    [ live |-> TRUE, pc |-> "reset",
      pos |-> Reset(c.grid, c.start, ZeroField(c.grid)).pos,
      P |-> Reset(c.grid, c.start, ZeroField(c.grid)).P,
      Q |-> EmptyQ, s |-> NoKey, eps |-> c.eps, ep |-> 0, t |-> 0,
      total_r |-> RInt(0), a |-> 0, done |-> FALSE, ret |-> EmptyQ,
      result |-> NoResult ]

TwinDiverged(tw) == [tw EXCEPT !.pc = "diverged"]

\* for ep in range(1, episodes + 1): env.reset(); s = get_state(env); total_r = 0.0
TwinBeginEpisode(c, tw) ==
    IF tw.pc # "reset" \/ tw.ep >= c.episodes THEN TwinDiverged(tw)
    ELSE LET rs == Reset(c.grid, c.start, tw.P)
         IN  [tw EXCEPT !.ep = @ + 1, !.pos = rs.pos, !.P = rs.P,
                        !.s = get_state(c.grid, rs.pos, rs.P),
                        !.total_r = RInt(0), !.t = 0,
                        !.pc = IF c.max_steps >= 1 THEN "inner" ELSE "episode_end"]

\* The Q update of the pass, on the outcome st of env.step and the key k2 of
\* the state it led to.
TwinTrainUpdate(c, tw, act, st, k2) ==
    LET Q1 == Touch(tw.Q, tw.s)
        bn == BestNext(Q1, k2, st.done)
        Q2 == TouchNext(Q1, k2, st.done)
        Q3 == [Q2 EXCEPT ![tw.s][act + 1] = Bellman(@, st.r, bn)]
    IN  [tw EXCEPT !.t = @ + 1, !.a = act, !.pos = st.pos, !.P = st.P,
                   !.done = st.done, !.total_r = RAdd(@, st.r), !.Q = Q3, !.s = k2,
                   !.pc = IF LeavesInnerLoop(st.done, tw.t + 1, c.max_steps)
                          THEN "episode_end" ELSE "inner"]

\* s2 = get_state(env)
TwinTrainObserve(c, tw, act, st) ==
    TwinTrainUpdate(c, tw, act, st, get_state(c.grid, st.pos, st.P))

\* One pass of the inner loop on the draw (ex, act) the first run received:
\* "random.random() < eps" takes the same branch when eps is the same, and
\* random.choice(idxs) picks the same element when idxs is the same.
TwinTrainStep(c, tw, ex, act, rate, choices) ==
    IF \/ tw.pc # "inner" \/ tw.t >= c.max_steps
       \/ tw.eps # rate
       \/ (~ex /\ ArgmaxSet(QRow(tw.Q, tw.s)) # choices)
    THEN TwinDiverged(tw)
    ELSE TwinTrainObserve(c, tw, act, EnvStep(c.grid, c.goal, tw.pos, tw.P, act))

\* eps = max(0.01, eps * 0.995)
TwinEndEpisode(c, tw) ==
    IF tw.pc # "episode_end" THEN TwinDiverged(tw)
    ELSE [tw EXCEPT !.eps = DecayEps(@), !.pc = "reset"]

\* return Q
TwinFinish(c, tw) ==
    IF tw.pc # "reset" \/ tw.ep < c.episodes THEN TwinDiverged(tw)
    ELSE [tw EXCEPT !.ret = tw.Q, !.pc = "returned"]

\* greedy_run: env.reset(); total_r = 0.0
TwinGreedyStart(c, tw) ==
    IF tw.pc # "returned" THEN TwinDiverged(tw)
    ELSE LET rs == Reset(c.grid, c.start, tw.P)
         IN  [tw EXCEPT !.pos = rs.pos, !.P = rs.P, !.total_r = RInt(0), !.t = 0,
                        !.s = get_state(c.grid, rs.pos, rs.P),
                        !.pc = IF c.g_max_steps >= 1 THEN "greedy" ELSE "rolled",
                        !.result = IF c.g_max_steps >= 1 THEN NoResult
                                   ELSE [returned |-> TRUE, total_r |-> RInt(0),
                                         success |-> FALSE]]

\* One pass of the rollout on the tie-break the first run received.
\* The rest of the pass, on the outcome st of env.step and the key k2 of the
\* state it led to (no renderer: Q[s2] is not looked up).
TwinGreedyUpdate(c, tw, act, st, k2) ==
    LET Q1   == GreedyTable(tw.Q, tw.s, act, st.r)
        tot  == RAdd(tw.total_r, st.r)
        last == tw.t + 1 >= c.g_max_steps
    IN  [tw EXCEPT !.t = @ + 1, !.a = act, !.pos = st.pos, !.P = st.P,
                   !.done = st.done, !.total_r = tot,
                   !.s = IF st.done \/ last THEN tw.s ELSE k2,
                   !.Q = IF st.done THEN RedrawTable(Q1, k2, FALSE) ELSE Q1,
                   !.result = IF st.done \/ last
                              THEN [returned |-> TRUE, total_r |-> tot,
                                    success |-> SuccessFlag(st.done, st.reached_goal)]
                              ELSE NoResult,
                   !.pc = IF st.done \/ last THEN "rolled" ELSE "greedy"]

\* the state after env.step
TwinGreedyObserve(c, tw, act, st) ==
    TwinGreedyUpdate(c, tw, act, st, get_state(c.grid, st.pos, st.P))

TwinGreedyPass(c, tw, act, choices) ==
    IF \/ tw.pc # "greedy" \/ tw.t >= c.g_max_steps
       \/ ArgmaxSet(QRow(tw.Q, tw.s)) # choices
    THEN TwinDiverged(tw)
    ELSE TwinGreedyObserve(c, tw, act, EnvStep(c.grid, c.goal, tw.pos, tw.P, act))

\* The second run after a step of the first one: it takes the step next unless
\* the observer of the first run has answered stop (now or before).
TwinAfter(stopped, next) ==
    IF ~twin.live THEN twin
    ELSE IF stopped THEN [twin EXCEPT !.live = FALSE]
    ELSE next

\* GridWorld(grid, start, goal) has run (its __init__ ends in reset()).
EnvInit ==
    /\ Constructs(cfg.grid, cfg.start, cfg.goal)
    /\ pos = Reset(cfg.grid, cfg.start, ZeroField(cfg.grid)).pos
    /\ P = Reset(cfg.grid, cfg.start, ZeroField(cfg.grid)).P

\* The locals of q_learning before the first episode.
LoopInit ==
    /\ Q = EmptyQ
    /\ ep = 0
    /\ t = 0
    /\ s = NoKey
    /\ eps = cfg.eps
    /\ total_r = RInt(0)
    /\ show = FALSE
    /\ renderer = IF cfg.visualize THEN "running" ELSE "none"
    /\ exploring = FALSE
    /\ a = 0
    /\ r = RInt(0)
    /\ done = FALSE
    /\ info = [hit_wall |-> FALSE, hit_obstacle |-> FALSE, reached_goal |-> FALSE]
    /\ target = cfg.start
    /\ s2 = NoKey
    /\ best_next = RInt(0)
    /\ keep_running = TRUE
    /\ pc = "reset"
    /\ ret = EmptyQ
    /\ rng = cfg.rng
    /\ nfree = 0
    /\ debug2 = NoDebug
    /\ result = NoResult
    /\ idxs = {}
    /\ steps = 0
    /\ twin = TwinInit(cfg)

\* PygameRenderer.__init__: self.running = True; self.paused = False;
\* self.show_quad_means = False
RendererInit ==
    /\ running = TRUE
    /\ paused = FALSE
    /\ show_quad_means = FALSE
    /\ u_pc = "idle"
    /\ u_ret = "none"
    /\ batch = <<>>
    /\ r_last = "init"

\* No call of bucketize is followed on its own, and no event reaches the
\* renderer.
BucketIdle ==
    /\ b_x = BR(0, 1)
    /\ b_bins = <<>>
    /\ b_out = NoResult

AuxIdle == BucketIdle /\ RendererInit

\* The environment is built and q_learning has built its empty table and its
\* renderer.
Init ==
    /\ cfg \in Configs
    /\ EnvInit
    /\ LoopInit
    /\ AuxIdle

\* for ep in range(1, episodes + 1): env.reset(); s = get_state(env);
\* total_r = 0.0; show = ...
BeginEpisode ==
    /\ pc = "reset"
    /\ ep < cfg.episodes
    /\ ep' = ep + 1
    /\ pos' = Reset(cfg.grid, cfg.start, P).pos
    /\ P' = Reset(cfg.grid, cfg.start, P).P
    /\ s' = get_state(cfg.grid, pos', P')
    /\ total_r' = RInt(0)
    /\ show' = (cfg.visualize /\ ((ep + 1) % cfg.vis_every = 0))
    /\ t' = 0
    /\ pc' = IF cfg.max_steps >= 1 THEN "inner" ELSE "episode_end"
    /\ UNCHANGED << cfg, Q, eps, renderer, exploring, a, r, done, info, target, s2,
                    best_next, keep_running, ret, rng, nfree, debug2, result, idxs, steps >>
    /\ twin' = TwinAfter(FALSE, TwinBeginEpisode(cfg, twin))
    /\ UNCHANGED aux

\* One pass of the inner loop with the draw (ex, act), on the outcome st of
\* env.step and the features dbg of the state it led to: the whole pass
\* without an observer, and up to the call of renderer.update with one
\* (the call returns when the renderer lets it, see UpdateReturns).
TrainUpdate(ex, act, st, dbg) ==
    LET Q1    == Touch(Q, s)
        k2    == dbg.state
        bn    == BestNext(Q1, k2, st.done)
        Q2    == TouchNext(Q1, k2, st.done)
        Q3    == [Q2 EXCEPT ![s][act + 1] = Bellman(@, st.r, bn)]
        shown == show /\ renderer # "none"
    IN  /\ pc = "inner"
        /\ t < cfg.max_steps
        /\ t' = t + 1
        /\ exploring' = ex
        /\ a' = act
        /\ pos' = st.pos
        /\ P' = st.P
        /\ r' = st.r
        /\ done' = st.done
        /\ info' = [hit_wall |-> st.hit_wall, hit_obstacle |-> st.hit_obstacle,
                    reached_goal |-> st.reached_goal]
        /\ target' = << st.tx, st.ty >>
        /\ total_r' = RAdd(total_r, st.r)
        /\ s2' = k2
        /\ debug2' = dbg
        /\ best_next' = bn
        /\ Q' = Q3
        /\ s' = IF shown THEN s ELSE k2
        /\ pc' = IF shown THEN "update"
                 ELSE IF LeavesInnerLoop(st.done, t + 1, cfg.max_steps) THEN "episode_end"
                 ELSE "inner"
        /\ steps' = steps + 1
        /\ UNCHANGED << cfg, ep, eps, show, result, keep_running, renderer, ret >>

\* s2 = get_state(env), on the environment as env.step left it
TrainObserve(ex, act, st) ==
    TrainUpdate(ex, act, st, get_state_debug(cfg.grid, st.pos, st.P))

\* s2, r, done, info = env.step(a)
TrainStep(ex, act) ==
    TrainObserve(ex, act, EnvStep(cfg.grid, cfg.goal, pos, P, act))

\* The second run takes the pass when the first one has completed it.
TwinAfterPass(next) ==
    IF show /\ renderer # "none" THEN twin ELSE TwinAfter(FALSE, next)

\* exploring = random.random() < eps: true is possible when eps > 0, false
\* when eps < 1 (random() is in [0, 1)).
CanExplore == RLess(RInt(0), eps)

CanExploit == RLess(eps, RInt(1))

\* The draw of this pass is the next scripted one.
Scripted(ex, act) ==
    /\ rng # <<>>
    /\ ex = Head(rng).explore
    /\ act = Head(rng).a
    /\ rng' = Tail(rng)
    /\ nfree' = nfree

\* The draw of this pass is arbitrary.
Free ==
    /\ rng = <<>>
    /\ nfree < MaxFreeDraws
    /\ rng' = rng
    /\ nfree' = nfree + 1

\* if exploring: a = random.randrange(N_ACTIONS)
Explore ==
    /\ CanExplore
    /\ \E act \in ActionIdx :
          /\ Scripted(TRUE, act) \/ Free
          /\ TrainStep(TRUE, act)
          /\ idxs' = idxs
          /\ twin' = TwinAfterPass(TwinTrainStep(cfg, twin, TRUE, act, eps, idxs'))
    /\ UNCHANGED aux

\* else: a = argmax_index(q_s)
Exploit ==
    /\ CanExploit
    /\ \E act \in ArgmaxSet(QRow(Q, s)) :
          /\ Scripted(FALSE, act) \/ Free
          /\ TrainStep(FALSE, act)
          /\ idxs' = ArgmaxSet(QRow(Q, s))
          /\ twin' = TwinAfterPass(TwinTrainStep(cfg, twin, FALSE, act, eps, idxs'))
    /\ UNCHANGED aux

\* keep_running = renderer.update(...) returns, with the answer keep: update
\* handles the pending events and, while the renderer is paused, waits for
\* more in its loop; a stop event makes it answer false.  Then
\* "if not keep_running: renderer.close(); return Q", or time.sleep(delay),
\* "s = s2" and the end of the loop body.
UpdateReturns ==
    /\ pc = "update"
    /\ \E keep \in BOOLEAN :
          /\ keep_running' = keep
          /\ renderer' = IF StopsTraining(TRUE, keep) THEN "stopped" ELSE renderer
          /\ ret' = IF StopsTraining(TRUE, keep) THEN Q ELSE ret
          /\ s' = IF StopsTraining(TRUE, keep) THEN s ELSE s2
          /\ pc' = IF StopsTraining(TRUE, keep) THEN "returned"
                   ELSE IF LeavesInnerLoop(done, t, cfg.max_steps) THEN "episode_end"
                   ELSE "inner"
          /\ twin' = TwinAfter(StopsTraining(TRUE, keep),
                               TwinTrainStep(cfg, twin, exploring, a, eps, idxs))
    /\ UNCHANGED << cfg, pos, P, Q, ep, t, eps, total_r, show, exploring, a, r, done,
                    info, target, s2, best_next, rng, nfree, debug2, result, idxs,
                    steps >>
    /\ UNCHANGED aux

\* eps = max(0.01, eps * 0.995), at the end of the episode
EndEpisode ==
    /\ pc = "episode_end"
    /\ eps' = DecayEps(eps)
    /\ pc' = "reset"
    /\ UNCHANGED << cfg, pos, P, Q, ep, t, s, total_r, show, renderer, exploring, a,
                    r, done, info, target, s2, best_next, keep_running, ret, rng, nfree,
                    debug2, result, idxs, steps >>
    /\ twin' = TwinAfter(FALSE, TwinEndEpisode(cfg, twin))
    /\ UNCHANGED aux

\* The episode loop is over: "return Q" without a renderer, and with one the
\* call of renderer.update(title="Training done.", subtitle="").
Finish ==
    /\ pc = "reset"
    /\ ep >= cfg.episodes
    /\ ret' = IF renderer = "none" THEN Q ELSE ret
    /\ pc' = IF renderer = "none" THEN "returned" ELSE "last_update"
    /\ UNCHANGED << cfg, pos, P, Q, ep, t, s, eps, total_r, show, renderer, exploring,
                    a, r, done, info, target, s2, best_next, keep_running, rng, nfree,
                    debug2, result, idxs, steps >>
    /\ twin' = IF renderer = "none" THEN TwinAfter(FALSE, TwinFinish(cfg, twin)) ELSE twin
    /\ UNCHANGED aux

\* renderer.update(title="Training done.", subtitle="") returns; return Q
\* (the answer of this update is not looked at; a stop event clears the
\* renderer's running flag)
LastUpdateReturns ==
    /\ pc = "last_update"
    /\ \E keep \in BOOLEAN :
          renderer' = IF keep THEN renderer ELSE "stopped"
    /\ ret' = Q
    /\ pc' = "returned"
    /\ UNCHANGED << cfg, pos, P, Q, ep, t, s, eps, total_r, show, exploring, a,
                    r, done, info, target, s2, best_next, keep_running, rng, nfree,
                    debug2, result, idxs, steps >>
    /\ twin' = TwinAfter(FALSE, TwinFinish(cfg, twin))
    /\ UNCHANGED aux

(***************************************************************************)
(* core/training.py: the steps of greedy_run                               *)
(***************************************************************************)
\* env.reset(); renderer = PygameRenderer(...) if visualize; total_r = 0.0;
\* and with max_steps = 0 the loop is empty: "return total_r, False", after
\* the call of renderer.update(title="Max steps reached...") with a renderer.
GreedyStart ==
    /\ pc = "returned"
    /\ pos' = Reset(cfg.grid, cfg.start, P).pos
    /\ P' = Reset(cfg.grid, cfg.start, P).P
    /\ renderer' = IF cfg.g_visualize THEN "running" ELSE "none"
    /\ total_r' = RInt(0)
    /\ t' = 0
    /\ s' = get_state(cfg.grid, pos', P')
    /\ pc' = IF cfg.g_max_steps >= 1 THEN "greedy"
             ELSE IF cfg.g_visualize THEN "max_steps_update"
             ELSE "rolled"
    /\ result' = IF cfg.g_max_steps >= 1 \/ cfg.g_visualize THEN NoResult
                 ELSE [returned |-> TRUE, total_r |-> RInt(0), success |-> FALSE]
    /\ UNCHANGED << cfg, Q, ep, eps, show, exploring, a, r, done, info, target, s2,
                    best_next, keep_running, ret, rng, nfree, debug2, idxs, steps >>
    /\ twin' = TwinAfter(FALSE, TwinGreedyStart(cfg, twin))
    /\ UNCHANGED aux

\* One pass of "for t in range(max_steps)" with the tie-break act of
\* argmax_index, on the outcome st of env.step and the features dbg of the
\* state it led to: without a renderer up to the return that follows it (done,
\* or the end of the loop), with one up to the call of renderer.update.
GreedyUpdate(act, st, dbg) ==
    LET k2      == dbg.state
        Q1      == GreedyTable(Q, s, act, st.r)
        has     == renderer # "none"
        tot     == RAdd(total_r, st.r)
        last    == t + 1 >= cfg.g_max_steps
    IN  /\ pc = "greedy"
        /\ t < cfg.g_max_steps
        /\ t' = t + 1
        /\ a' = act
        /\ pos' = st.pos
        /\ P' = st.P
        /\ r' = st.r
        /\ done' = st.done
        /\ info' = [hit_wall |-> st.hit_wall, hit_obstacle |-> st.hit_obstacle,
                    reached_goal |-> st.reached_goal]
        /\ target' = << st.tx, st.ty >>
        /\ total_r' = tot
        /\ s2' = k2
        /\ debug2' = dbg
        /\ Q' = IF ~has /\ st.done THEN RedrawTable(Q1, k2, has) ELSE Q1
        \* s = get_state(env) at the head of the next pass, if there is one
        /\ s' = IF has \/ st.done \/ last THEN s ELSE k2
        /\ result' = IF ~has /\ (st.done \/ last)
                     THEN [returned |-> TRUE, total_r |-> tot,
                           success |-> SuccessFlag(st.done, st.reached_goal)]
                     ELSE NoResult
        /\ pc' = IF has THEN "greedy_update"
                 ELSE IF st.done \/ last THEN "rolled"
                 ELSE "greedy"
        /\ UNCHANGED << cfg, ep, eps, show, exploring, best_next, ret, steps,
                        keep_running, renderer >>

\* the state the renderer is given, on the environment as env.step left it
GreedyObserve(act, st) ==
    GreedyUpdate(act, st, get_state_debug(cfg.grid, st.pos, st.P))

\* _, r, done, info = env.step(a)
GreedyPass(act) ==
    GreedyObserve(act, EnvStep(cfg.grid, cfg.goal, pos, P, act))

\* a = argmax_index(q_s)
GreedyStep ==
    \E act \in ArgmaxSet(QRow(Q, s)) :
          /\ Scripted(Head(rng).explore, act) \/ Free
          /\ GreedyPass(act)
          /\ idxs' = ArgmaxSet(QRow(Q, s))
          /\ twin' = IF renderer # "none" THEN twin
                     ELSE TwinAfter(FALSE, TwinGreedyPass(cfg, twin, act, idxs'))
          /\ UNCHANGED aux

\* keep_running = renderer.update(...) of a pass of the rollout returns, with
\* the answer keep.  "if not keep_running: renderer.close(); return total_r,
\* False"; else time.sleep(delay), and then under "if done:" the arguments of
\* the next renderer.update are evaluated (Q[s2] is looked up) and it is
\* called, or the loop goes on, or it is over and renderer.update(title="Max
\* steps reached...") is called.
GreedyUpdateReturns ==
    /\ pc = "greedy_update"
    /\ \E keep \in BOOLEAN :
          /\ keep_running' = keep
          /\ renderer' = IF keep THEN renderer ELSE "stopped"
          /\ Q' = IF keep /\ done THEN RedrawTable(Q, s2, TRUE) ELSE Q
          /\ result' = IF keep THEN NoResult
                       ELSE [returned |-> TRUE, total_r |-> total_r, success |-> FALSE]
          /\ pc' = IF ~keep THEN "rolled"
                   ELSE IF done THEN "rollout_end_update"
                   ELSE IF t >= cfg.g_max_steps THEN "max_steps_update"
                   ELSE "greedy"
          /\ s' = IF keep /\ ~done /\ t < cfg.g_max_steps THEN s2 ELSE s
          /\ twin' = TwinAfter(~keep, TwinGreedyPass(cfg, twin, a, idxs))
    /\ UNCHANGED << cfg, pos, P, ep, t, eps, total_r, show, exploring, a, r, done,
                    info, target, s2, best_next, ret, rng, nfree, debug2, idxs, steps >>
    /\ UNCHANGED aux

\* The last renderer.update of greedy_run returns (its answer is not looked
\* at; a stop event clears the renderer's running flag), and greedy_run
\* returns: "return total_r, info.get("reached_goal", False)" under
\* "if done:", "return total_r, False" after the loop.
GreedyLastUpdateReturns ==
    /\ pc \in {"rollout_end_update", "max_steps_update"}
    /\ \E keep \in BOOLEAN :
          renderer' = IF keep THEN renderer ELSE "stopped"
    /\ result' = [returned |-> TRUE, total_r |-> total_r,
                  success |-> IF pc = "rollout_end_update"
                              THEN SuccessFlag(done, info.reached_goal)
                              ELSE FALSE]
    /\ pc' = "rolled"
    /\ UNCHANGED << cfg, pos, P, Q, ep, t, s, eps, total_r, show, exploring, a, r,
                    done, info, target, s2, best_next, keep_running, ret, rng, nfree,
                    debug2, idxs, steps, twin >>
    /\ UNCHANGED aux

Next ==
    \/ BeginEpisode \/ Explore \/ Exploit \/ UpdateReturns \/ EndEpisode
    \/ Finish \/ LastUpdateReturns
    \/ GreedyStart \/ GreedyStep \/ GreedyUpdateReturns \/ GreedyLastUpdateReturns

Spec == Init /\ [][Next]_vars

\* A pass of one of the two loops is due.
PassDue ==
    \/ pc = "inner" /\ t < cfg.max_steps
    \/ pc = "greedy" /\ t < cfg.g_max_steps

\* A draw of the random source that the due pass can receive is among the
\* draws that are followed.
DrawLeft ==
    IF rng = <<>> THEN nfree < MaxFreeDraws
    ELSE IF pc = "greedy" THEN Head(rng).a \in ArgmaxSet(QRow(Q, s))
    ELSE IF Head(rng).explore THEN CanExplore
    ELSE CanExploit /\ Head(rng).a \in ArgmaxSet(QRow(Q, s))

\* The interpreter can take a step on its own, written out from the guards of
\* the steps: greedy_run has not returned, the pass that is due has a draw to
\* receive, and the program is not inside a renderer.update (which returns
\* when the events let it).
CanStep == pc \in {"reset", "episode_end", "returned"} \/ (PassDue /\ DrawLeft)

(***************************************************************************)
(* src/main.py: the steps of q_learning and of greedy_run.  The script's   *)
(* MatplotlibRenderer has no state of its own and update() returns         *)
(* nothing; a call of it runs the GUI event loop (plt.pause), so that the  *)
(* program rests inside it.                                                *)
(***************************************************************************)
\* Q = defaultdict(...); renderer = None; and with visualize the call of
\* MatplotlibRenderer(...), which draws the figure and runs the GUI event
\* loop (flush_events) before it returns.
MainInit ==
    /\ cfg \in MainConfigs
    /\ EnvInit
    /\ AuxIdle
    /\ Q = EmptyQ
    /\ ep = 0
    /\ t = 0
    /\ s = NoKey
    /\ eps = cfg.eps
    /\ total_r = RInt(0)
    /\ show = FALSE
    /\ renderer = "none"
    /\ exploring = FALSE
    /\ a = 0
    /\ r = RInt(0)
    /\ done = FALSE
    /\ info = [hit_wall |-> FALSE, hit_obstacle |-> FALSE, reached_goal |-> FALSE]
    /\ target = cfg.start
    /\ s2 = NoKey
    /\ best_next = RInt(0)
    /\ keep_running = TRUE
    /\ pc = IF cfg.visualize THEN "renderer_init" ELSE "reset"
    /\ ret = EmptyQ
    /\ rng = cfg.rng
    /\ nfree = 0
    /\ debug2 = NoDebug
    /\ result = NoResult
    /\ idxs = {}
    /\ steps = 0
    /\ twin = TwinInit(cfg)

\* MatplotlibRenderer(...) returns in q_learning: renderer = ...
MainRendererBuilt ==
    /\ pc = "renderer_init"
    /\ renderer' = "running"
    /\ pc' = "reset"
    /\ UNCHANGED << cfg, pos, P, Q, ep, t, s, eps, total_r, show, exploring, a, r,
                    done, info, target, s2, best_next, keep_running, ret, rng, nfree,
                    debug2, result, idxs, steps, twin, aux >>

\* for ep in range(1, episodes + 1): env.reset(); s = get_state(env); total_r = 0.0
MainBeginEpisode ==
    /\ pc = "reset"
    /\ ep < cfg.episodes
    /\ ep' = ep + 1
    /\ pos' = Reset(cfg.grid, cfg.start, P).pos
    /\ P' = Reset(cfg.grid, cfg.start, P).P
    /\ s' = Main_get_state(cfg.grid, pos', P')
    /\ total_r' = RInt(0)
    /\ show' = (cfg.visualize /\ ((ep + 1) % cfg.vis_every = 0))
    /\ t' = 0
    /\ pc' = IF cfg.max_steps >= 1 THEN "inner" ELSE "episode_end"
    /\ UNCHANGED << cfg, Q, eps, renderer, exploring, a, r, done, info, target, s2,
                    best_next, keep_running, ret, rng, nfree, debug2, result, idxs,
                    steps, twin, aux >>

\* The rest of a pass, on the outcome st of env.step and the key k2 of the
\* state it led to: best_next = max(Q[s2]);
\* Q[s][a] += alpha * (r + gamma * best_next - Q[s][a]); then, under
\* "if show and renderer:", the call of renderer.update, and without a window
\* shown "s = s2; if done: break"
MainTrainUpdate(ex, act, st, k2) ==
    LET Q1    == Touch(Touch(Q, s), k2)
        bn    == MainBestNext(Q, k2, st.done)
        shown == show /\ renderer # "none"
    IN  /\ pc = "inner"
        /\ t < cfg.max_steps
        /\ t' = t + 1
        /\ steps' = steps + 1
        /\ exploring' = ex
        /\ a' = act
        /\ pos' = st.pos
        /\ P' = st.P
        /\ r' = st.r
        /\ done' = st.done
        /\ total_r' = RAdd(total_r, st.r)
        /\ s2' = k2
        /\ best_next' = bn
        /\ Q' = [Q1 EXCEPT ![s][act + 1] = Bellman(@, st.r, bn)]
        /\ s' = IF shown THEN s ELSE k2
        /\ pc' = IF shown THEN "update"
                 ELSE IF MainLeavesInnerLoop(st.done, t + 1, cfg.max_steps)
                 THEN "episode_end" ELSE "inner"
        /\ UNCHANGED << cfg, ep, eps, show, renderer, info, target, keep_running, ret,
                        debug2, result, idxs, twin, aux >>

\* _, r, done = env.step(a); total_r += r; s2 = get_state(env)
MainTrainStep(ex, act) ==
    MainTrainUpdate(ex, act, MainEnvStep(cfg.grid, cfg.goal, pos, P, act),
                    Main_get_state(cfg.grid,
                                   MainEnvStep(cfg.grid, cfg.goal, pos, P, act).pos,
                                   MainEnvStep(cfg.grid, cfg.goal, pos, P, act).P))

\* if exploring: a = random.randrange(N_ACTIONS)
MainExplore ==
    /\ CanExplore
    /\ \E act \in ActionIdx :
          /\ Scripted(TRUE, act) \/ Free
          /\ MainTrainStep(TRUE, act)

\* else: a = argmax_index(Q[s])
MainExploit ==
    /\ CanExploit
    /\ \E act \in ArgmaxSet(QRow(Q, s)) :
          /\ Scripted(FALSE, act) \/ Free
          /\ MainTrainStep(FALSE, act)

\* renderer.update(title=...) of a pass returns; time.sleep(delay); s = s2;
\* if done: break
MainUpdateReturns ==
    /\ pc = "update"
    /\ s' = s2
    /\ pc' = IF MainLeavesInnerLoop(done, t, cfg.max_steps) THEN "episode_end"
             ELSE "inner"
    /\ UNCHANGED << cfg, pos, P, Q, ep, t, eps, total_r, show, renderer, exploring,
                    a, r, done, info, target, s2, best_next, keep_running, ret, rng,
                    nfree, debug2, result, idxs, steps, twin, aux >>

\* eps = max(0.01, eps * 0.995)
MainEndEpisode ==
    /\ pc = "episode_end"
    /\ eps' = DecayEps(eps)
    /\ pc' = "reset"
    /\ UNCHANGED << cfg, pos, P, Q, ep, t, s, total_r, show, renderer, exploring, a,
                    r, done, info, target, s2, best_next, keep_running, ret, rng, nfree,
                    debug2, result, idxs, steps, twin, aux >>

\* The episodes are over: "return Q" without a renderer, with one the call of
\* renderer.update(title="Training done.").
MainFinish ==
    /\ pc = "reset"
    /\ ep >= cfg.episodes
    /\ ret' = IF renderer = "none" THEN Q ELSE ret
    /\ pc' = IF renderer = "none" THEN "returned" ELSE "last_update"
    /\ UNCHANGED << cfg, pos, P, Q, ep, t, s, eps, total_r, show, renderer, exploring,
                    a, r, done, info, target, s2, best_next, keep_running, rng, nfree,
                    debug2, result, idxs, steps, twin, aux >>

\* renderer.update(title="Training done.") returns; return Q
MainLastUpdateReturns ==
    /\ pc = "last_update"
    /\ ret' = Q
    /\ pc' = "returned"
    /\ UNCHANGED << cfg, pos, P, Q, ep, t, s, eps, total_r, show, renderer, exploring,
                    a, r, done, info, target, s2, best_next, keep_running, rng, nfree,
                    debug2, result, idxs, steps, twin, aux >>

\* greedy_run(env, Q, max_steps): env.reset(), and the call of
\* MatplotlibRenderer(...) (greedy_run has no renderer yet).
MainGreedyStart ==
    /\ pc = "returned"
    /\ pos' = Reset(cfg.grid, cfg.start, P).pos
    /\ P' = Reset(cfg.grid, cfg.start, P).P
    /\ renderer' = "none"
    /\ pc' = "greedy_renderer_init"
    /\ UNCHANGED << cfg, Q, ep, t, s, eps, total_r, show, exploring, a, r, done, info,
                    target, s2, best_next, keep_running, ret, rng, nfree, debug2,
                    result, idxs, steps, twin, aux >>

\* MatplotlibRenderer(...) returns in greedy_run: renderer = ...;
\* total_r = 0.0; and with max_steps = 0 the loop is empty and
\* renderer.update(title="Max steps reached...") is called.
MainGreedyRendererBuilt ==
    /\ pc = "greedy_renderer_init"
    /\ renderer' = "running"
    /\ total_r' = RInt(0)
    /\ t' = 0
    /\ pc' = IF cfg.g_max_steps >= 1 THEN "greedy" ELSE "max_steps_update"
    /\ UNCHANGED << cfg, pos, P, Q, ep, s, eps, show, exploring, a, r, done, info,
                    target, s2, best_next, keep_running, ret, rng, nfree, debug2,
                    result, idxs, steps, twin, aux >>

\* One pass of "for t in range(max_steps)" up to the call of renderer.update,
\* on the key k of the state it starts in, the tie-break act of argmax_index
\* and the outcome st of env.step: s = get_state(env); a = argmax_index(Q[s])
\* (the lookup creates the row of an unseen state); _, r, done = env.step(a);
\* total_r += r
MainGreedyUpdate(act, k, st) ==
    /\ t' = t + 1
    /\ s' = k
    /\ a' = act
    /\ Q' = Touch(Q, k)
    /\ pos' = st.pos
    /\ P' = st.P
    /\ r' = st.r
    /\ done' = st.done
    /\ total_r' = RAdd(total_r, st.r)
    /\ pc' = "greedy_update"
    /\ UNCHANGED << cfg, ep, eps, show, renderer, exploring, info, target, s2,
                    best_next, keep_running, ret, debug2, result, idxs, steps, twin,
                    aux >>

MainGreedyStep ==
    /\ pc = "greedy"
    /\ t < cfg.g_max_steps
    /\ \E act \in ArgmaxSet(QRow(Q, Main_get_state(cfg.grid, pos, P))) :
          /\ Scripted(Head(rng).explore, act) \/ Free
          /\ MainGreedyUpdate(act, Main_get_state(cfg.grid, pos, P),
                              MainEnvStep(cfg.grid, cfg.goal, pos, P, act))

\* renderer.update(title="GREEDY ...") of a pass returns; time.sleep(delay);
\* under "if done:" renderer.update(title="Reached endpoint...") is called,
\* else the loop goes on, or it is over and
\* renderer.update(title="Max steps reached...") is called.
MainGreedyUpdateReturns ==
    /\ pc = "greedy_update"
    /\ pc' = IF done THEN "rollout_end_update"
             ELSE IF t >= cfg.g_max_steps THEN "max_steps_update"
             ELSE "greedy"
    /\ UNCHANGED << cfg, pos, P, Q, ep, t, s, eps, total_r, show, renderer, exploring,
                    a, r, done, info, target, s2, best_next, keep_running, ret, rng,
                    nfree, debug2, result, idxs, steps, twin, aux >>

\* The last renderer.update of greedy_run returns: "return total_r, True"
\* under "if done:", "return total_r, False" after the loop.
MainGreedyLastUpdateReturns ==
    /\ pc \in {"rollout_end_update", "max_steps_update"}
    /\ result' = [returned |-> TRUE, total_r |-> total_r,
                  success |-> pc = "rollout_end_update"]
    /\ pc' = "rolled"
    /\ UNCHANGED << cfg, pos, P, Q, ep, t, s, eps, total_r, show, renderer, exploring,
                    a, r, done, info, target, s2, best_next, keep_running, ret, rng,
                    nfree, debug2, idxs, steps, twin, aux >>

MainNext ==
    \/ MainRendererBuilt \/ MainGreedyRendererBuilt
    \/ MainBeginEpisode \/ MainExplore \/ MainExploit \/ MainUpdateReturns
    \/ MainEndEpisode \/ MainFinish \/ MainLastUpdateReturns
    \/ MainGreedyStart \/ MainGreedyStep \/ MainGreedyUpdateReturns
    \/ MainGreedyLastUpdateReturns

MainSpec == MainInit /\ [][MainNext]_vars

(***************************************************************************)
(* core/utils.py, core/state.py: calls of bucketize(x, bins) and of        *)
(* get_state(env) on their own.  x runs over the twentieths from 0 to      *)
(* MaxTwentieths / 20, bins over ascending lists, and the environment over *)
(* the cells of a grid and a few pheromone fields.                         *)
(***************************************************************************)
MaxTwentieths == 21

TestXs == { BR(k, 20) : k \in 0 .. MaxTwentieths }

\* the bins of core/state.py and of the standalone script, and lists of
\* other lengths (one with a repeated threshold)
TestBins ==
    { <<>>, << BR(1, 2) >>, << BR(1, 5), BR(1, 5), BR(3, 5) >>, Bins,
      << BR(1, 10), BR(3, 10), BR(1, 2), BR(7, 10) >> }

\* ["01", "00"] with the agent on one of its cells
FeatConfig ==
    [grid |-> GridSmall, start |-> <<0, 0>>, goal |-> <<1, 1>>, episodes |-> 0,
     max_steps |-> 0, eps |-> Rat(4, 10), visualize |-> FALSE, vis_every |-> 1,
     rng |-> <<>>, g_max_steps |-> 0, g_visualize |-> FALSE]

\* Pheromone fields: all zero, all 3/5, or zero but for one cell at 1.
TestFields ==
    { [yy \in 1 .. 2 |-> [xx \in 1 .. 2 |-> v]] : v \in { RInt(0), Rat(3, 5) } }
    \cup
    { [yy \in 1 .. 2 |-> [xx \in 1 .. 2 |-> IF <<xx, yy>> = hot THEN RInt(1) ELSE RInt(0)]]
        : hot \in (1 .. 2) \X (1 .. 2) }

BucketInit ==
    /\ cfg = FeatConfig
    /\ pos \in (0 .. 1) \X (0 .. 1)
    /\ P \in TestFields
    /\ LoopInit
    /\ b_x \in TestXs
    /\ b_bins \in TestBins
    /\ b_out = NoResult
    /\ RendererInit

\* bucketize(b_x, b_bins)
Bucketize ==
    /\ ~b_out.returned
    /\ b_out' = [returned |-> TRUE, value |-> bucketize(b_x, b_bins)]
    /\ UNCHANGED << cfg, pos, P, Q, ep, t, s, eps, total_r, show, renderer, exploring,
                    a, r, done, info, target, s2, best_next, keep_running, pc, ret, rng,
                    nfree, debug2, result, idxs, steps, twin, b_x, b_bins, rvars >>

\* bucketize(x, b_bins) for a larger x
BucketizeLarger ==
    /\ b_out.returned
    /\ \E x \in TestXs :
          /\ BRLess(b_x, x)
          /\ b_x' = x
          /\ b_out' = [returned |-> TRUE, value |-> bucketize(x, b_bins)]
    /\ UNCHANGED << cfg, pos, P, Q, ep, t, s, eps, total_r, show, renderer, exploring,
                    a, r, done, info, target, s2, best_next, keep_running, pc, ret, rng,
                    nfree, debug2, result, idxs, steps, twin, b_bins, rvars >>

\* s = get_state(env)
Featurize ==
    /\ s = NoKey
    /\ s' = get_state(cfg.grid, pos, P)
    /\ UNCHANGED << cfg, pos, P, Q, ep, t, eps, total_r, show, renderer, exploring,
                    a, r, done, info, target, s2, best_next, keep_running, pc, ret, rng,
                    nfree, debug2, result, idxs, steps, twin, aux >>

BucketNext == Bucketize \/ BucketizeLarger \/ Featurize

BucketSpec == BucketInit /\ [][BucketNext]_vars

(***************************************************************************)
(* core/renderer.py: PygameRenderer                                        *)
(***************************************************************************)
\* The events _handle_event tells apart: pygame.QUIT, a KEYDOWN of K_ESCAPE,
\* K_SPACE or K_n, a left MOUSEBUTTONDOWN inside the checkbox, and any other
\* event.
Events == {"QUIT", "ESC", "SPACE", "N", "CLICK", "OTHER"}

\* The longest list of events one pygame.event.get() hands over.
MaxBatch == 2

Batches == UNION { [1 .. n -> Events] : n \in 0 .. MaxBatch }

\* The renderer's fields, and step_once of the _process_events under way.
Fields(run, psd, sqm, once) ==
    [running |-> run, paused |-> psd, show_quad_means |-> sqm, step_once |-> once]

\* _handle_event(event), and _process_events' `if action == "step"`
_handle_event(st, ev) ==
    IF ev = "QUIT" THEN [st EXCEPT !.running = FALSE]
    ELSE IF ev = "ESC" THEN [st EXCEPT !.running = FALSE]
    ELSE IF ev = "SPACE" THEN [st EXCEPT !.paused = ~st.paused]
    ELSE IF ev = "N" /\ st.paused THEN [st EXCEPT !.step_once = TRUE]
    ELSE IF ev = "CLICK" THEN [st EXCEPT !.show_quad_means = ~st.show_quad_means]
    ELSE st

RECURSIVE ProcessFrom(_, _, _)
\* for event in pygame.event.get(): from the i-th event on
ProcessFrom(st, evs, i) ==
    IF i > Len(evs) THEN st
    ELSE ProcessFrom(_handle_event(st, evs[i]), evs, i + 1)

\* _process_events() when pygame.event.get() returns evs
_process_events(st, evs) == ProcessFrom([st EXCEPT !.step_once = FALSE], evs, 1)

\* A variant of update's loop test that an N event does not release.
BlocksDespiteStep(psd, run, once) == psd /\ run

\* update(): `while self.paused and self.running and not step_once`
Blocks(psd, run, once) == psd /\ run /\ ~once

\* A variant of update's result that does not look at self.running.
UpdateResultTrue(run) == "True"

\* update(): `if not self.running: return False ... return True`
UpdateResult(run) == IF run THEN "True" ELSE "False"

\* update() from _process_events on, pe being what _process_events left:
\* the loop is entered (or gone round again), or update() returns.
UpdateAfterEvents(evs, pe, op) ==
    /\ batch' = evs
    /\ running' = pe.running
    /\ paused' = pe.paused
    /\ show_quad_means' = pe.show_quad_means
    /\ IF Blocks(pe.paused, pe.running, pe.step_once)
       THEN u_pc' = "waiting" /\ u_ret' = "none"
       ELSE u_pc' = "idle" /\ u_ret' = UpdateResult(pe.running)
    /\ r_last' = op

\* update(env, episode, step, reward, debug) is called.
RendererUpdate ==
    /\ u_pc = "idle"
    /\ IF ~running
       THEN /\ u_ret' = "False"
            /\ batch' = <<>>
            /\ r_last' = "update"
            /\ UNCHANGED << running, paused, show_quad_means, u_pc >>
       ELSE \E evs \in Batches :
               UpdateAfterEvents(evs,
                   _process_events(Fields(running, paused, show_quad_means, FALSE), evs),
                   "update")
    /\ UNCHANGED << cfg, pos, P, Q, ep, t, s, eps, total_r, show, renderer, exploring,
                    a, r, done, info, target, s2, best_next, keep_running, pc, ret, rng,
                    nfree, debug2, result, idxs, steps, twin, b_x, b_bins, b_out >>

\* One turn of update's while loop: _draw_frame, time.sleep(0.01),
\* step_once = self._process_events(), and the loop test.
RendererWait ==
    /\ u_pc = "waiting"
    /\ \E evs \in Batches :
          UpdateAfterEvents(evs,
              _process_events(Fields(running, paused, show_quad_means, FALSE), evs),
              "wait")
    /\ UNCHANGED << cfg, pos, P, Q, ep, t, s, eps, total_r, show, renderer, exploring,
                    a, r, done, info, target, s2, best_next, keep_running, pc, ret, rng,
                    nfree, debug2, result, idxs, steps, twin, b_x, b_bins, b_out >>

\* close(): if self.running: self.running = False; then pygame.quit()
RendererClose ==
    /\ u_pc = "idle"
    /\ running' = FALSE
    /\ batch' = <<>>
    /\ r_last' = "close"
    /\ UNCHANGED << paused, show_quad_means, u_pc, u_ret >>
    /\ UNCHANGED << cfg, pos, P, Q, ep, t, s, eps, total_r, show, renderer, exploring,
                    a, r, done, info, target, s2, best_next, keep_running, pc, ret, rng,
                    nfree, debug2, result, idxs, steps, twin, b_x, b_bins, b_out >>

\* renderer = PygameRenderer(env): a renderer of its own, before any event.
RenderInit ==
    /\ cfg = FeatConfig
    /\ EnvInit
    /\ LoopInit
    /\ BucketIdle
    /\ RendererInit

RenderNext == RendererUpdate \/ RendererWait \/ RendererClose

RenderSpec == RenderInit /\ [][RenderNext]_vars

\* The interpreter runs the one thread of the program on: a step it can take
\* on its own (CanStep) is taken.  Nothing makes a renderer.update return.
FairSpec == Spec /\ ([]<>(~CanStep) \/ []<><<Next>>_vars)

(***************************************************************************)
(* Properties                                                              *)
(***************************************************************************)
\* A pass of the inner loop (one env.step and one Q update) is taken.
StepTaken == pc = "inner" /\ t' = t + 1

\* The last env.step of the current episode has happened and no reset since.
AfterStep == t >= 1

PAt(F, c) == F[c[2] + 1][c[1] + 1]

Cells == { c \in (0 .. GridW(cfg.grid) - 1) \X (0 .. GridH(cfg.grid) - 1) : TRUE }

\* C1 (as claimed): once env.step has returned done = true in an episode, no
\* further pass of the inner loop (env.step, Q update) is taken in that episode.
C1_BreakOnDone == [][(pc = "inner" /\ AfterStep /\ done) => ~StepTaken]_vars

\* C2: in every pass the Bellman update Q[s][a] += alpha * (r + gamma *
\* best_next - Q[s][a]) is applied with best_next = 0 when env.step returned
\* done = true, and with the maximum of the row of the next state (as the table
\* stood before the update, all zeros for an unseen state) when done = false.
C2_BestNext ==
    [][StepTaken =>
         /\ best_next' = IF done' THEN RInt(0) ELSE RowMax(QRow(Q, s2'))
         /\ Q'[s][a' + 1] = Bellman(QRow(Q, s)[a' + 1], r', best_next')]_vars

\* A non-terminal pass whose next state has a row without any zero left.
C2_Witness == pc \in {"inner", "episode_end"} /\ AfterStep /\ ~done /\ best_next # RInt(0) /\ Q[s][a + 1] # RInt(0)

\* C3: every cell of the pheromone field is within [0, 1].
C3_PheromoneBound ==
    \A c \in Cells : PAt(P, c)[1] >= 0 /\ PAt(P, c)[1] <= PAt(P, c)[2]

\* A field with a cell that received two deposits and a cell that only decayed.
C3_Witness ==
    /\ \E c \in Cells : RLess(DepositRate, PAt(P, c)) /\ RLess(PAt(P, c), RInt(1))
    /\ \E c \in Cells : RLess(RInt(0), PAt(P, c)) /\ RLess(PAt(P, c), DepositRate)

\* C4: after one step the cell the agent occupies holds
\* decay*old + deposit_rate*(1 - decay*old) and every other cell decay*old.
C4_DecayThenDeposit ==
    [][StepTaken =>
         \A c \in Cells :
            LET d == RMul(DecayRate, PAt(P, c))
            IN  PAt(P', c) = IF c = pos' THEN RAdd(d, RMul(DepositRate, RSub(RInt(1), d)))
                             ELSE d]_vars

\* The agent stands on a cell that held pheromone before the step, and another
\* cell holds decayed pheromone.
C4_Witness ==
    /\ AfterStep
    /\ RLess(DepositRate, PAt(P, pos))
    /\ \E c \in Cells : c # pos /\ RLess(RInt(0), PAt(P, c))

\* C5: done = reached_goal or hit_wall or hit_obstacle, where hit_wall says
\* that the target cell (x+dx, y+dy) is out of bounds, hit_obstacle that the
\* cell occupied after the step is an obstacle, reached_goal that the position
\* after the step is the goal.
C5_DoneFlag ==
    [][StepTaken =>
         LET tx == pos[1] + Actions[a' + 1][1]
             ty == pos[2] + Actions[a' + 1][2]
         IN  /\ info'.hit_wall = ~(0 <= tx /\ tx < GridW(cfg.grid) /\ 0 <= ty /\ ty < GridH(cfg.grid))
             /\ info'.hit_obstacle = (Tile(cfg.grid, pos'[1], pos'[2]) = "1")
             /\ info'.reached_goal = (pos' = cfg.goal)
             /\ done' = (info'.reached_goal \/ info'.hit_wall \/ info'.hit_obstacle)]_vars

\* A step that is done for having hit the wall only.
C5_Witness ==
    AfterStep /\ done /\ info.hit_wall /\ ~info.hit_obstacle /\ ~info.reached_goal

\* C6 (as claimed): a step from a cell of the grid whose target cell is out of
\* bounds reports hit_wall and leaves the agent where it was, for each of the
\* 8 actions.
C6_WallKeepsPosition ==
    [][(StepTaken /\ InBounds(cfg.grid, pos[1], pos[2])
          /\ ~InBounds(cfg.grid, target'[1], target'[2])) =>
         (info'.hit_wall /\ pos' = pos)]_vars

\* C6 (amended): a step whose target cell is out of bounds reports hit_wall
\* and clamps each coordinate on its own: a target coordinate outside the grid
\* is replaced by the nearest coordinate of the grid, the other one is kept.
\* From a cell of the grid the 4 axis-aligned actions therefore leave the
\* position unchanged; a diagonal action does so only when both target
\* coordinates are out of bounds.
C6_WallClamps ==
    [][(StepTaken /\ ~InBounds(cfg.grid, target'[1], target'[2])) =>
         /\ target' = << pos[1] + Actions[a' + 1][1], pos[2] + Actions[a' + 1][2] >>
         /\ info'.hit_wall
         /\ pos'[1] = IF target'[1] < 0 THEN 0
                      ELSE IF target'[1] >= GridW(cfg.grid) THEN GridW(cfg.grid) - 1
                      ELSE target'[1]
         /\ pos'[2] = IF target'[2] < 0 THEN 0
                      ELSE IF target'[2] >= GridH(cfg.grid) THEN GridH(cfg.grid) - 1
                      ELSE target'[2]
         /\ ((a' < 4 /\ InBounds(cfg.grid, pos[1], pos[2])) => pos' = pos)]_vars

\* A diagonal step into the wall that moved the agent along it.
C6_Witness ==
    /\ AfterStep /\ info.hit_wall /\ a >= 4
    /\ (pos[1] = target[1] \/ pos[2] = target[2])

\* The reward of ending on the cell the agent occupies, with its pheromone
\* and the given goal status, the wall not hit.
RewardHere(goal_reached) == StepReward(Tile(cfg.grid, pos[1], pos[2]), PAt(P, pos), goal_reached)

\* C7 (as claimed): when step reports hit_wall, the reward is strictly lower
\* than the reward of ending on a cell of the same kind, pheromone and goal
\* status without hitting the wall.
C7_WallPenalty ==
    (AfterStep /\ info.hit_wall) => RLess(r, RewardHere(info.reached_goal))

\* C8 (as claimed): when step reports reached_goal, the reward is strictly
\* greater than the reward of ending on a non-goal cell of the same kind and
\* pheromone with the same hit_wall flag.
C8_GoalBonusPositive ==
    (AfterStep /\ info.reached_goal) => RLess(RewardHere(FALSE), r)

\* C8 (amended): the terminal bonus step adds on reached_goal is 0: the reward
\* equals the reward of ending on a non-goal cell of the same kind and
\* pheromone with the same hit_wall flag.
C8_GoalBonusZero ==
    (AfterStep /\ info.reached_goal) => r = RewardHere(FALSE)

\* A step that reached the goal.
C8_Witness == AfterStep /\ info.reached_goal /\ done

\* The pheromone a cell holds after a step onto it when it held none before.
FreshDeposit == RAdd(RInt(0), RMul(DepositRate, RSub(RInt(1), RInt(0))))

\* C9 (as claimed): stepping onto a cell whose pheromone before the step was
\* greater than 0 returns a strictly lower reward than stepping onto a cell of
\* the same kind (and goal status) whose pheromone was 0.
C9_PheromoneCosts ==
    [][(StepTaken /\ RLess(RInt(0), PAt(P, pos'))) =>
         RLess(r', StepReward(Tile(cfg.grid, pos'[1], pos'[2]), FreshDeposit,
                              info'.reached_goal))]_vars

\* C9 (amended): step subtracts pher_penalty * P[cell] with pher_penalty = 0:
\* stepping onto a cell whose pheromone before the step was greater than 0
\* returns the same reward as stepping onto a cell of the same kind (and goal
\* status) whose pheromone was 0.
C9_PheromoneFree ==
    [][(StepTaken /\ RLess(RInt(0), PAt(P, pos'))) =>
         r' = StepReward(Tile(cfg.grid, pos'[1], pos'[2]), FreshDeposit,
                         info'.reached_goal)]_vars

\* The agent stands on a cell that held pheromone before the step.
C9_Witness == AfterStep /\ RLess(FreshDeposit, PAt(P, pos)) /\ ~info.reached_goal

\* C10: when renderer.update answers false in a pass, q_learning returns the
\* table as that pass left it, and nothing happens afterwards: no env.step, no
\* Q update, no epsilon decay, no renderer.update.
C10_StopReturns ==
    [][/\ (pc = "update" /\ ~keep_running')
            => (pc' = "returned" /\ ret' = Q' /\ Q' = Q /\ eps' = eps /\ steps' = steps)
       /\ (pc = "returned" /\ ~keep_running)
            => (pc' = "returned" \/ (GreedyStart /\ ret' = ret))]_vars

\* Training was stopped by the observer before the last episode was over.
C10_Witness ==
    /\ pc = "returned" /\ ~keep_running /\ ret = Q /\ Q # EmptyQ
    /\ (ep < cfg.episodes \/ t < cfg.max_steps)

\* greedy_run has returned.
Rolled == pc = "rolled" /\ result.returned

\* The observer answered stop in the last pass of the rollout.
RolloutStopped == renderer # "none" /\ ~keep_running

\* C11 (as claimed): the success flag greedy_run returns is true exactly when
\* the last env.step of the rollout reported reached_goal, with or without an
\* observer and whatever the observer answered.
C11_SuccessIffGoal ==
    Rolled => (result.success = (t >= 1 /\ info.reached_goal))

\* C11 (amended): the success flag is true exactly when the last env.step of
\* the rollout reported reached_goal and the observer did not answer stop in
\* that pass; a rollout the observer stops returns false even when its last
\* step reached the goal, and so does one that ended by wall, obstacle or the
\* step budget.
C11_SuccessUnlessStopped ==
    Rolled => (result.success = (t >= 1 /\ info.reached_goal /\ ~RolloutStopped))

\* The observer stopped the rollout in the pass that reached the goal.
C11_Witness ==
    Rolled /\ t >= 1 /\ info.reached_goal /\ RolloutStopped /\ ~result.success

\* C12 (as claimed): after greedy_run the table has the keys and the rows it
\* had when q_learning returned it.
C12_RolloutKeepsTable == Rolled => Q = ret

\* C12 (amended): greedy_run changes no row of the table q_learning returned;
\* looking up a state that has no row creates its all-zero row, so the set of
\* keys can grow.
C12_RolloutOnlyAddsZeroRows ==
    (pc \in {"greedy", "greedy_update", "rollout_end_update", "max_steps_update",
             "rolled"}) =>
        /\ DOMAIN ret \subseteq DOMAIN Q
        /\ \A k \in DOMAIN Q : Q[k] = IF k \in DOMAIN ret THEN ret[k] ELSE ZeroRow

\* A rollout of two passes without an observer, after a training that filled a
\* row, whose second pass looked up a state the training never saw.
C12_Witness ==
    /\ Rolled /\ ret # EmptyQ /\ t = 2
    /\ DOMAIN Q # DOMAIN ret
    /\ renderer = "none"

\* The step of the episode loop that ends an episode: "eps = max(0.01, eps * 0.995)".
EpisodeEnds == pc = "episode_end" /\ pc' = "reset"

\* The rate of the next episode is max(eps_min, eps * decay_rate), it is not
\* greater than the rate of this episode, the rate changes nowhere else, and
\* the rate a pass draws against ("random.random() < eps") is greater than 0.
EpsDecreasesPositive ==
    /\ EpisodeEnds => (eps' = RMax(EpsMin, RMul(eps, EpsDecay)) /\ ~RLess(eps, eps'))
    /\ ~EpisodeEnds => eps' = eps
    /\ StepTaken => RLess(RInt(0), eps)

\* C13 (as claimed): for every initial eps in [0, 1], the exploration rate of
\* episode k+1 is max(0.01, 0.995 * eps_k), never greater than the rate of
\* episode k, and the rate used in any episode is strictly greater than 0.
C13_EpsDecreasesPositive == [][EpsDecreasesPositive]_vars

\* C13 (amended): the rate of episode k+1 is max(0.01, 0.995 * eps_k) for every
\* initial eps in [0, 1].  It is never greater than the rate of episode k and
\* always greater than 0 when the initial eps is at least the floor 0.01; an
\* initial eps below the floor is used as it is in the first episode (0
\* included) and raised to the floor after it.
C13_EpsDecreasesAboveFloor ==
    [][/\ ~RLess(cfg.eps, EpsMin) => EpsDecreasesPositive
       /\ EpisodeEnds => eps' = RMax(EpsMin, RMul(eps, EpsDecay))
       /\ (EpisodeEnds /\ RLess(eps, EpsMin)) => eps' = EpsMin
       /\ ~EpisodeEnds => eps' = eps]_vars

\* A pass of the second episode draws against the decayed rate, still above
\* the floor.
C13_Witness ==
    /\ pc \in {"inner", "episode_end"} /\ ep = 2 /\ t >= 1
    /\ eps = RMul(cfg.eps, EpsDecay) /\ RLess(EpsMin, eps)

\* A featurizer result is at hand (get_state_debug ran in the last pass).
Featurized == debug2 # NoDebug

\* The sum of the four tile strengths, and whether it is within 1e-6 of 1.
TileStrengthSum ==
    RAdd(RAdd(debug2.tile_strength[1], debug2.tile_strength[2]),
         RAdd(debug2.tile_strength[3], debug2.tile_strength[4]))

TileSumIsOne ==
    /\ ~RLess(TileStrengthSum, Rat(999999, 1000000))
    /\ ~RLess(Rat(1000001, 1000000), TileStrengthSum)

\* Whether the sum of the four pheromone strengths is within 1e-6 of 1.
PherSumIsOne ==
    /\ ~BRLess(BRSum(debug2.pher_strength), BR(999999, 1000000))
    /\ ~BRLess(BR(1000001, 1000000), BRSum(debug2.pher_strength))

\* C14 (as claimed): both 4-vectors of get_state_debug, tile_strength and
\* pher_strength, sum to 1 within 1e-6.
C14_BothSumToOne == Featurized => (TileSumIsOne /\ PherSumIsOne)

\* What get_state_debug returns: pher_strength sums to 1 within 1e-6;
\* tile_strength is the vector of the quadrant means itself (the softmax is
\* disabled), each of them within [-2, 0], so its sum is at most 0.
OnlyPherSumsToOne ==
    Featurized =>
        /\ PherSumIsOne
        /\ debug2.tile_strength = debug2.tile_avgs
        /\ \A q \in 1 .. 4 : /\ ~RLess(debug2.tile_strength[q], RInt(-2))
                              /\ ~RLess(RInt(0), debug2.tile_strength[q])
        /\ ~RLess(RInt(0), TileStrengthSum)

\* A featurizer result next to the boundary with unequal pheromone strengths.
FeaturizedAtBoundary ==
    /\ Featurized /\ PherSumIsOne /\ RLess(TileStrengthSum, RInt(0))
    /\ \E q \in 1 .. 4 : BRLess(debug2.pher_strength[q], debug2.pher_strength[1])

\* The contribution of one offset as claimed: +1 for a free cell, -1 for an
\* obstacle cell, -2 out of bounds.
ClaimedTVal(grid, x, y) ==
    IF ~InBounds(grid, x, y) THEN -2
    ELSE IF Tile(grid, x, y) = "0" THEN 1 ELSE -1

RECURSIVE ClaimedTSum(_, _, _, _)
ClaimedTSum(grid, x0, y0, offs) ==
    IF offs = {} THEN 0
    ELSE LET o == CHOOSE c \in offs : TRUE
         IN  ClaimedTVal(grid, x0 + o[1], y0 + o[2]) + ClaimedTSum(grid, x0, y0, offs \ {o})

\* C15 (as claimed): the tile value of each quadrant is the mean, over the
\* quadrant's offsets around the agent, of +1 for a free cell, -1 for an
\* obstacle cell and -2 for an out-of-bounds cell.
C15_FreeCellCountsOne ==
    Featurized =>
        \A q \in 1 .. Len(QUADS) :
            debug2.tile_avgs[q] =
                Rat(ClaimedTSum(cfg.grid, pos[1], pos[2], QUADS[q]), Cardinality(QUADS[q]))

\* A configuration the claim calls valid: a grid with at least one row, all
\* rows of the same length, and start and goal cells of the grid.
ValidConstruction(grid, start, goal) ==
    /\ Len(grid) >= 1
    /\ \A y \in 1 .. Len(grid) : Len(grid[y]) = Len(grid[1])
    /\ InBounds(grid, start[1], start[2])
    /\ InBounds(grid, goal[1], goal[2])

\* C16 (as claimed): constructing a GridWorld with an empty grid, a grid that
\* is not rectangular, or a start or goal cell outside the grid fails, so that
\* no reset, step or episode ever runs on such an environment.
C16_InvalidConstructionFails ==
    (ep >= 1 /\ t >= 1) => ValidConstruction(cfg.grid, cfg.start, cfg.goal)

\* A pass of the rollout (one env.step) is taken.
RolloutStepTaken == pc = "greedy" /\ t' = t + 1

\* env.reset() is called: at the head of an episode of q_learning, and at the
\* start of greedy_run.
ResetTaken ==
    \/ (pc = "reset" /\ ep' = ep + 1)
    \/ (pc = "returned" /\ pc' \in {"greedy", "max_steps_update", "rolled"})

\* C17: for a GridWorld whose start is a cell of the grid, the agent position
\* (x, y) always satisfies 0 <= x < W and 0 <= y < H, whatever actions are
\* taken, and it changes only in reset and step.
C17_PositionInGrid ==
    /\ [](InBounds(cfg.grid, cfg.start[1], cfg.start[2]) =>
            (0 <= pos[1] /\ pos[1] < GridW(cfg.grid) /\ 0 <= pos[2] /\ pos[2] < GridH(cfg.grid)))
    /\ [][pos' # pos => (ResetTaken \/ StepTaken \/ RolloutStepTaken)]_vars

\* A step towards a cell outside the grid was taken from a cell other than
\* the start, and the agent is on a cell of the grid.
C17_Witness ==
    /\ InBounds(cfg.grid, cfg.start[1], cfg.start[2])
    /\ t >= 2 /\ info.hit_wall /\ pos # cfg.start
    /\ InBounds(cfg.grid, pos[1], pos[2]) /\ ~InBounds(cfg.grid, target[1], target[2])

\* C18: reset puts the agent on start and zeroes every cell of the pheromone
\* field, whatever steps preceded it; every episode of q_learning and the
\* rollout of greedy_run take their first step from this state.
C18_ResetState ==
    /\ []((pc \in {"inner", "greedy"} /\ t = 0) =>
            (pos = cfg.start /\ \A c \in Cells : PAt(P, c) = RInt(0)))
    /\ [][ResetTaken => (pos' = cfg.start /\ \A c \in Cells : PAt(P', c) = RInt(0))]_vars

\* The rollout is about to take its first step, after a training that took
\* steps (and so left pheromone on the grid).
C18_Witness ==
    /\ pc = "greedy" /\ t = 0 /\ ret # EmptyQ /\ debug2 # NoDebug
    /\ pos = cfg.start /\ P = ZeroField(cfg.grid)
    /\ target # cfg.start

\* C19: when q_learning or greedy_run exploits, argmax_index draws its result
\* from the list of all the indices whose value equals the maximum of the
\* row: the result holds the maximum, and with k indices tied for it the list
\* has these k indices, each of them a possible result (not only the first).
C19_ArgmaxAnyTied ==
    [][((StepTaken /\ ~exploring') \/ RolloutStepTaken) =>
         /\ idxs' = { i \in ActionIdx :
                        \A j \in ActionIdx : ~RLess(QRow(Q, s)[i + 1], QRow(Q, s)[j + 1]) }
         /\ a' \in idxs']_vars

\* The first pass of a rollout chose, in a row that holds a value below its
\* maximum, a maximal index that is not the first maximal one.
C19_Witness ==
    LET row == QRow(ret, get_state(cfg.grid, cfg.start, ZeroField(cfg.grid)))
    IN  /\ pc \in {"greedy", "rolled"} /\ t = 1
        /\ row # ZeroRow /\ Cardinality(idxs) = N_ACTIONS - 1
        /\ row[a + 1] = RowMax(row)
        /\ \E i \in 0 .. (a - 1) : row[i + 1] = RowMax(row)

\* The table the first run holds differs from the one the second run holds
\* only by the lookup of its observer's last redraw.
RedrawnHere == pc = "rolled" /\ t >= 1 /\ done /\ renderer # "none"

\* The first run is inside a renderer.update: in the middle of a pass, or
\* before a return, that the second run takes in one go.
InsideUpdate ==
    pc \in {"update", "last_update", "greedy_update", "rollout_end_update",
            "max_steps_update"}

\* C20 (as claimed): two runs of q_learning followed by greedy_run on the same
\* grid, start, goal and configuration that receive the same draws select the
\* same actions, hold the same Q-table and return the same results, one of
\* them having an observer that always answers continue and the other none.
C20_SameRuns ==
    (twin.live /\ ~InsideUpdate) =>
        /\ twin.pc = pc /\ twin.a = a /\ twin.pos = pos /\ twin.P = P
        /\ twin.ret = ret /\ twin.result = result
        /\ twin.Q = Q

\* C20 (amended): the two runs select the same actions, q_learning returns
\* the same table in both and greedy_run the same result; the tables are the
\* same throughout, except that at the end of a rollout that ended on done the
\* run with the observer has looked the terminal state up for the last redraw,
\* which adds its all-zero row when the state had none.
C20_SameRunsButRedraw ==
    (twin.live /\ ~InsideUpdate) =>
        /\ twin.pc = pc /\ twin.a = a /\ twin.pos = pos /\ twin.P = P
        /\ twin.ret = ret /\ twin.result = result
        /\ Q = IF RedrawnHere THEN Touch(twin.Q, s2) ELSE twin.Q

\* Both runs have returned from a rollout of two passes that reached the
\* goal, the first under an observer that answered continue throughout, and
\* the tables differ.
C20_Witness ==
    /\ twin.live /\ Rolled /\ twin.result = result /\ result.success /\ t = 2
    /\ renderer = "running" /\ ret # EmptyQ
    /\ Q # twin.Q

\* q_learning was called with visualize=False: renderer is None.
NoObserver == ~cfg.visualize

\* The draws that are followed are used up in the middle of a run.
DrawsUsedUp == PassDue /\ ~DrawLeft

\* The numbers of env.step calls: t in the current episode or rollout, steps
\* in q_learning as a whole.
StepBudgets ==
    /\ (NoObserver /\ pc \in {"reset", "inner", "episode_end", "returned"}) =>
          /\ t <= cfg.max_steps
          /\ steps <= cfg.episodes * cfg.max_steps
          /\ (pc = "returned" => ret = Q)
    /\ pc \in {"greedy", "greedy_update", "rollout_end_update", "max_steps_update",
               "rolled"} => t <= cfg.g_max_steps

\* C21: q_learning without an observer terminates: it makes at most
\* max_steps env.step calls in an episode and at most episodes * max_steps
\* in total, and then returns the Q-table; greedy_run makes at most max_steps
\* env.step calls, and the pass whose env.step returns done = true is its last.
C21_Terminates ==
    /\ []StepBudgets
    /\ [][RolloutStepTaken => (t = 0 \/ ~done)]_vars
    /\ [][(RolloutStepTaken /\ done') => pc' \in {"rolled", "greedy_update"}]_vars
    /\ (NoObserver /\ pc = "reset" /\ ep = 0) ~> (pc = "returned" \/ DrawsUsedUp)

\* q_learning without an observer has made all its passes and returned, and
\* the rollout that followed has ended on done before its budget was used.
C21_Witness ==
    /\ NoObserver /\ Rolled /\ steps = cfg.episodes * cfg.max_steps /\ steps >= 1
    /\ done /\ t < cfg.g_max_steps

\* q_learning is running: it has not returned.
Training == pc \in {"reset", "inner", "update", "episode_end", "last_update"}

\* C22: during q_learning no key leaves the Q-table, every row holds
\* N_ACTIONS = 8 values, and a row that a pass creates is created all zeros:
\* after the pass it is all zeros, but for the entry of the state and action of
\* that pass, which holds the Bellman update of 0.
C22_TableGrows ==
    [][Training =>
         /\ DOMAIN Q \subseteq DOMAIN Q'
         /\ N_ACTIONS = 8
         /\ \A k \in DOMAIN Q' : DOMAIN Q'[k] = 1 .. 8
         /\ \A k \in (DOMAIN Q') \ (DOMAIN Q) :
               Q'[k] = IF k = s
                       THEN [ZeroRow EXCEPT ![a' + 1] = Bellman(RInt(0), r', best_next')]
                       ELSE ZeroRow]_vars

\* A pass that was not terminal has created the row of its next state, and
\* the table holds another row.
C22_Witness ==
    /\ pc \in {"inner", "episode_end"} /\ AfterStep /\ ~done
    /\ s2 \in DOMAIN Q /\ Q[s2] = ZeroRow /\ Cardinality(DOMAIN Q) >= 2

\* C24: a pass of the inner loop of q_learning assigns one entry of the
\* table, Q[s][a] for the state s before the step and the chosen action a;
\* every other value is what it was (zero in a row the pass creates), and the
\* rows the pass creates are those of s and, when done is false, of the next
\* state s2: no row is created for s2 when done is true.
C24_OneEntryWritten ==
    [][StepTaken =>
         /\ DOMAIN Q' = (DOMAIN Q) \cup {s} \cup (IF done' THEN {} ELSE {s2'})
         /\ \A k \in DOMAIN Q' : \A i \in 1 .. N_ACTIONS :
               (k # s \/ i # a' + 1) => Q'[k][i] = QRow(Q, k)[i]
         /\ Q'[s][a' + 1] = Bellman(QRow(Q, s)[a' + 1], r', best_next')]_vars

\* A terminal pass with a reward other than 0 has led to a state that has
\* no row.
C24_Witness ==
    /\ pc \in {"inner", "episode_end"} /\ AfterStep /\ done /\ r # RInt(0)
    /\ s2 \notin DOMAIN Q

\* The smallest index i (from 0) with x < bins[i], and len(bins) when there
\* is none.
SmallestIndexAbove(x, bins) ==
    IF \E i \in 1 .. Len(bins) : BRLess(x, bins[i])
    THEN (CHOOSE i \in 1 .. Len(bins) :
            BRLess(x, bins[i]) /\ \A j \in 1 .. (i - 1) : ~BRLess(x, bins[j])) - 1
    ELSE Len(bins)

\* C27: for an ascending list bins, bucketize(x, bins) is the smallest index i
\* with x < bins[i], and len(bins) when x is at or above every threshold; it
\* is in 0 .. len(bins) and does not decrease when x grows; and the four
\* pheromone components of the state get_state returns are in 0 .. 4.
C27_Bucketize ==
    /\ [](b_out.returned =>
            /\ b_out.value = SmallestIndexAbove(b_x, b_bins)
            /\ b_out.value \in 0 .. Len(b_bins))
    /\ [][(b_out.returned /\ b_out'.returned /\ b_bins' = b_bins /\ ~BRLess(b_x', b_x))
            => b_out.value <= b_out'.value]_vars
    /\ [](s # NoKey => (Len(s) = 8 /\ \A i \in 5 .. 8 : s[i] \in 0 .. 4))

\* bucketize(0.8, [0.2, 0.4, 0.6, 0.8]) has returned 4, and get_state has
\* returned a state.
C27_Witness ==
    /\ b_out.returned /\ b_bins = Bins /\ b_out.value = 4
    /\ ~BRLess(b_x, BR(4, 5)) /\ ~BRLess(BR(4, 5), b_x)
    /\ s # NoKey

\* C23 (as claimed): in the q_learning of src/main.py, a pass whose env.step
\* returned done = true applies the Bellman update with best_next = 0.
C23_MainNoBootstrap ==
    [][(StepTaken /\ done') =>
         /\ best_next' = RInt(0)
         /\ Q'[s][a' + 1] = Bellman(QRow(Q, s)[a' + 1], r', RInt(0))]_vars

\* The number of SPACE events among the first i - 1 events of evs.
SpacesBefore(evs, i) == Cardinality({ j \in 1 .. (i - 1) : evs[j] = "SPACE" })

\* Whether the renderer is paused when the i-th event of evs is handled.
PausedAt(psd, evs, i) == psd # (SpacesBefore(evs, i) % 2 = 1)

\* An N event of evs is handled while the renderer is paused.
NWhilePaused(psd, evs) ==
    \E i \in 1 .. Len(evs) : evs[i] = "N" /\ PausedAt(psd, evs, i)

\* evs holds a stop event (ESC or window close).
HasStop(evs) == \E i \in 1 .. Len(evs) : evs[i] \in {"QUIT", "ESC"}

HasSpace(evs) == \E i \in 1 .. Len(evs) : evs[i] = "SPACE"

\* This step of update() handles the events batch'.
EventsHandled == running /\ r_last' \in {"update", "wait"}

\* Every SPACE event toggles paused.
SpaceToggles == paused' = PausedAt(paused, batch', Len(batch') + 1)

\* update() stays in its loop exactly while the renderer is paused and running
\* and no N event was handled while paused.
WaitsWhilePaused ==
    (u_pc' = "waiting") <=> (paused' /\ running' /\ ~NWhilePaused(paused, batch'))

\* N events alone, handled while not paused, change nothing: update() returns
\* true as it does without events.
NUnpausedNoEffect ==
    (~paused /\ \A i \in 1 .. Len(batch') : batch'[i] = "N")
        => /\ UNCHANGED << running, paused, show_quad_means >>
           /\ u_pc' = "idle"
           /\ u_ret' = "True"

\* C25 as stated: SPACE toggles paused; update() does not return while paused
\* and running until SPACE unpauses, an N event or a stop event arrives; an N
\* event handled while paused makes that update() return true with paused
\* still true; an N event while not paused has no effect.
C25_NStepsOnce ==
    [][EventsHandled =>
          /\ SpaceToggles
          /\ WaitsWhilePaused
          /\ NWhilePaused(paused, batch')
                => (u_pc' = "idle" /\ u_ret' = "True" /\ paused')
          /\ NUnpausedNoEffect]_vars

\* C25: SPACE toggles paused; update() does not return while paused and
\* running until SPACE unpauses, an N event or a stop event arrives; an N
\* event handled while paused makes that update() return, true unless a stop
\* event came with it in the same list of events (then false), and paused
\* is still true unless a SPACE event came with it (so that the next update()
\* blocks again); an N event while not paused has no effect.
C25_PauseProtocol ==
    [][EventsHandled =>
          /\ SpaceToggles
          /\ WaitsWhilePaused
          /\ NWhilePaused(paused, batch')
                => /\ u_pc' = "idle"
                   /\ u_ret' = (IF HasStop(batch') THEN "False" ELSE "True")
                   /\ ~HasSpace(batch') => paused'
          /\ (paused /\ u_pc = "idle" /\ batch' = <<>>) => u_pc' = "waiting"
          /\ NUnpausedNoEffect]_vars

\* An N event released update() from its loop: it returned true, and the
\* renderer is still paused.
C25_Witness ==
    /\ r_last = "wait"
    /\ batch = << "N" >>
    /\ u_pc = "idle"
    /\ u_ret = "True"
    /\ paused
    /\ running

\* C26: stop is a latch. running never goes back to true; the update() that
\* handles ESC or a window close returns false, close() leaves running false,
\* and every update() called after that returns false without waiting,
\* paused or not.
C26_StopLatch ==
    [][/\ ~running => ~running'
       /\ (EventsHandled /\ HasStop(batch'))
             => (~running' /\ u_pc' = "idle" /\ u_ret' = "False")
       /\ r_last' = "close" => ~running'
       /\ (~running /\ r_last' = "update")
             => (u_pc' = "idle" /\ u_ret' = "False")
       /\ ~running' => u_pc' = "idle"]_vars

\* update() was called on a stopped and paused renderer and returned false.
C26_Witness ==
    /\ ~running
    /\ paused
    /\ r_last = "update"
    /\ batch = <<>>
    /\ u_pc = "idle"
    /\ u_ret = "False"

====
